---- MODULE Spec2Model ----
(***************************************************************************)
(* SmartFreeze daemon (src/src/daemon), freeze engine (freeze_engine.rs),  *)
(* selection policy (process.rs) and crash-recovery store (persistence.rs) *)
(* as a state machine.                                                     *)
(*                                                                         *)
(* Threads: the main thread runs recover_from_crash, spawns monitor_loop   *)
(* and then serves the tray menu; monitor_loop is the poll thread.  `pc`   *)
(* is the position of the startup code and then of the poll thread,        *)
(* `ui_pc` the position of the tray event loop.                            *)
(*                                                                         *)
(* The operating system is the environment: every enumerate() call draws a *)
(* fresh process table, every freeze/resume/save call draws its outcome.   *)
(***************************************************************************)
EXTENDS Integers, Sequences, FiniteSets, TLC

\* ------------------------------------------------------------------ bounds
\* Process ids the operating system hands out: 1..MaxPid.
MaxPid == 2
\* Longest pid list handed to freeze_multiple / resume_multiple.
MaxBatch == 3
\* Most threads a process has (the count a successful freeze or resume reports).
MaxThreads == 2
\* Most save calls made on the store before it is loaded.
MaxSaves == 2
\* Most records of a PersistentState whose staleness is evaluated.
MaxRecords == 2

\* ------------------------------------------------------- program constants
MAX_STATE_AGE_SECS == 3600
\* --threshold default, the daemon's threshold_mb.
DefaultThresholdMb == 100
Pids == 1 .. MaxPid

ProcessCategory ==
    {"Critical", "Gaming", "Communication", "BackgroundService", "Productivity", "Unknown"}

\* Working-set sizes the enumerator reports: below the threshold and exactly on it.
MemValues == {DefaultThresholdMb - 50, DefaultThresholdMb}

NoProc == [absent |-> TRUE]

\* What one slot of the OS process table holds (the pid is the slot's index).
Slots ==
    {NoProc} \cup [memory_mb : MemValues, is_foreground : BOOLEAN, category : ProcessCategory]

\* The process tables an enumeration can see: GetForegroundWindow names at most
\* one foreground process.
Tables ==
    {t \in [Pids -> Slots] :
        Cardinality({p \in Pids : t[p] # NoProc /\ t[p].is_foreground}) <= 1}

ProcessInfo(p, slot) ==
    [pid |-> p, memory_mb |-> slot.memory_mb, is_foreground |-> slot.is_foreground,
     category |-> slot.category]

RECURSIVE TableSeq(_, _)
TableSeq(t, p) ==
    IF p > MaxPid THEN <<>>
    ELSE IF t[p] = NoProc THEN TableSeq(t, p + 1)
    ELSE <<ProcessInfo(p, t[p])>> \o TableSeq(t, p + 1)

\* WindowsProcessEnumerator::enumerate on table t: one ProcessInfo per process, in
\* snapshot order.
enumerate(t) == TableSeq(t, 1)

HasGaming(t) == \E p \in Pids : t[p] # NoProc /\ t[p].category = "Gaming"

\* ------------------------------------------------------------ pure functions
\* Mutant: the foreground test is missing.
is_safe_to_freeze_no_fg(p, keep_communication) ==
    /\ p.category # "Critical"
    /\ p.category # "Gaming"
    /\ ~(keep_communication /\ p.category = "Communication")

\* Mutant: keep_communication is ignored.
is_safe_to_freeze_no_keep(p, keep_communication) ==
    /\ ~p.is_foreground
    /\ p.category # "Critical"
    /\ p.category # "Gaming"

\* ProcessInfo::is_safe_to_freeze.
is_safe_to_freeze(p, keep_communication) ==
    /\ ~p.is_foreground
    /\ p.category # "Critical"
    /\ p.category # "Gaming"
    /\ ~(keep_communication /\ p.category = "Communication")

\* Mutant: a process exactly on the threshold is left out.
SafeFilterStrict(p, cfg) ==
    /\ p.memory_mb > cfg.min_memory_mb
    /\ is_safe_to_freeze(p, cfg.keep_communication)

\* The filter closure of find_safe_to_freeze.
SafeFilter(p, cfg) ==
    /\ p.memory_mb >= cfg.min_memory_mb
    /\ is_safe_to_freeze(p, cfg.keep_communication)

\* FreezeEngine::find_safe_to_freeze on a successful enumeration `procs`.
find_safe_to_freeze(procs, cfg) == SelectSeq(procs, LAMBDA p : SafeFilter(p, cfg))

IsGaming(p) == p.category = "Gaming"

\* FreezeEngine::find_gaming_processes on a successful enumeration `procs`.
find_gaming_processes(procs) == SelectSeq(procs, IsGaming)

\* The monitor's gaming_running: an enumeration error counts as "no game".
GamingRunning(res) ==
    IF res.ok THEN find_gaming_processes(res.procs) # <<>> ELSE FALSE

SeqRange(s) == {s[i] : i \in 1 .. Len(s)}
PidsOf(s) == {s[i].pid : i \in 1 .. Len(s)}

\* Every order in which HashSet::drain can yield the elements of S.
Orders(S) ==
    {q \in [1 .. Cardinality(S) -> S] : \A i, j \in 1 .. Cardinality(S) : q[i] = q[j] => i = j}

\* ----------------------------------------------------------- categorization
\* A Rust string is the sequence of its characters.
UpperCase == <<"A", "B", "C", "D", "E", "F", "G", "H", "I", "J", "K", "L", "M",
               "N", "O", "P", "Q", "R", "S", "T", "U", "V", "W", "X", "Y", "Z">>
LowerCase == <<"a", "b", "c", "d", "e", "f", "g", "h", "i", "j", "k", "l", "m",
               "n", "o", "p", "q", "r", "s", "t", "u", "v", "w", "x", "y", "z">>

\* char::to_ascii_lowercase, and char::to_lowercase on the characters of the model.
LowerChar(c) ==
    IF \E i \in 1 .. Len(UpperCase) : UpperCase[i] = c
    THEN LowerCase[CHOOSE i \in 1 .. Len(UpperCase) : UpperCase[i] = c]
    ELSE c

\* str::to_lowercase.
to_lowercase(s) == [i \in 1 .. Len(s) |-> LowerChar(s[i])]

\* str::eq_ignore_ascii_case.
eq_ignore_ascii_case(a, b) ==
    /\ Len(a) = Len(b)
    /\ \A i \in 1 .. Len(a) : LowerChar(a[i]) = LowerChar(b[i])

\* str::contains(pattern).
contains(s, pat) ==
    \E i \in 1 .. (Len(s) - Len(pat) + 1) : SubSeq(s, i, i + Len(pat) - 1) = pat

\* is_critical: system, smss.exe, csrss.exe, wininit.exe, services.exe, lsass.exe, svchost.exe, winlogon.exe, explorer.exe, dwm.exe, textinputhost.exe, searchhost.exe, startmenuexperiencehost.exe
critical ==
    {
     <<"s", "y", "s", "t", "e", "m">>,
     <<"s", "m", "s", "s", ".", "e", "x", "e">>,
     <<"c", "s", "r", "s", "s", ".", "e", "x", "e">>,
     <<"w", "i", "n", "i", "n", "i", "t", ".", "e", "x", "e">>,
     <<"s", "e", "r", "v", "i", "c", "e", "s", ".", "e", "x", "e">>,
     <<"l", "s", "a", "s", "s", ".", "e", "x", "e">>,
     <<"s", "v", "c", "h", "o", "s", "t", ".", "e", "x", "e">>,
     <<"w", "i", "n", "l", "o", "g", "o", "n", ".", "e", "x", "e">>,
     <<"e", "x", "p", "l", "o", "r", "e", "r", ".", "e", "x", "e">>,
     <<"d", "w", "m", ".", "e", "x", "e">>,
     <<"t", "e", "x", "t", "i", "n", "p", "u", "t", "h", "o", "s", "t", ".", "e", "x", "e">>,
     <<"s", "e", "a", "r", "c", "h", "h", "o", "s", "t", ".", "e", "x", "e">>,
     <<"s", "t", "a", "r", "t", "m", "e", "n", "u", "e", "x", "p", "e", "r", "i", "e", "n", "c", "e", "h", "o", "s", "t", ".", "e", "x", "e">>
    }

\* is_gaming_by_name, game launchers: steam, epic, origin, gog, battle.net, battlenet, uplay, ubisoft
game_launchers ==
    {
     <<"s", "t", "e", "a", "m">>,
     <<"e", "p", "i", "c">>,
     <<"o", "r", "i", "g", "i", "n">>,
     <<"g", "o", "g">>,
     <<"b", "a", "t", "t", "l", "e", ".", "n", "e", "t">>,
     <<"b", "a", "t", "t", "l", "e", "n", "e", "t">>,
     <<"u", "p", "l", "a", "y">>,
     <<"u", "b", "i", "s", "o", "f", "t">>
    }

\* is_gaming_by_name, anti-cheat: easyanticheat, battleye, vanguard
anti_cheat ==
    {
     <<"e", "a", "s", "y", "a", "n", "t", "i", "c", "h", "e", "a", "t">>,
     <<"b", "a", "t", "t", "l", "e", "y", "e">>,
     <<"v", "a", "n", "g", "u", "a", "r", "d">>
    }

\* is_gaming_by_path: \steam\, \steamapps\, \steamlibrary\, \epic games\, \epicgames\, \origin games\, \gog galaxy\, \gog games\, \battle.net\, \ubisoft\, \ea games\, \riot games\, \games\, \my games\
gaming_paths ==
    {
     <<"\\", "s", "t", "e", "a", "m", "\\">>,
     <<"\\", "s", "t", "e", "a", "m", "a", "p", "p", "s", "\\">>,
     <<"\\", "s", "t", "e", "a", "m", "l", "i", "b", "r", "a", "r", "y", "\\">>,
     <<"\\", "e", "p", "i", "c", " ", "g", "a", "m", "e", "s", "\\">>,
     <<"\\", "e", "p", "i", "c", "g", "a", "m", "e", "s", "\\">>,
     <<"\\", "o", "r", "i", "g", "i", "n", " ", "g", "a", "m", "e", "s", "\\">>,
     <<"\\", "g", "o", "g", " ", "g", "a", "l", "a", "x", "y", "\\">>,
     <<"\\", "g", "o", "g", " ", "g", "a", "m", "e", "s", "\\">>,
     <<"\\", "b", "a", "t", "t", "l", "e", ".", "n", "e", "t", "\\">>,
     <<"\\", "u", "b", "i", "s", "o", "f", "t", "\\">>,
     <<"\\", "e", "a", " ", "g", "a", "m", "e", "s", "\\">>,
     <<"\\", "r", "i", "o", "t", " ", "g", "a", "m", "e", "s", "\\">>,
     <<"\\", "g", "a", "m", "e", "s", "\\">>,
     <<"\\", "m", "y", " ", "g", "a", "m", "e", "s", "\\">>
    }

\* is_communication: discord, slack, teams, telegram, signal, whatsapp, zoom, skype, mumble, teamspeak, ventrilo, element, riot
communication_apps ==
    {
     <<"d", "i", "s", "c", "o", "r", "d">>,
     <<"s", "l", "a", "c", "k">>,
     <<"t", "e", "a", "m", "s">>,
     <<"t", "e", "l", "e", "g", "r", "a", "m">>,
     <<"s", "i", "g", "n", "a", "l">>,
     <<"w", "h", "a", "t", "s", "a", "p", "p">>,
     <<"z", "o", "o", "m">>,
     <<"s", "k", "y", "p", "e">>,
     <<"m", "u", "m", "b", "l", "e">>,
     <<"t", "e", "a", "m", "s", "p", "e", "a", "k">>,
     <<"v", "e", "n", "t", "r", "i", "l", "o">>,
     <<"e", "l", "e", "m", "e", "n", "t">>,
     <<"r", "i", "o", "t">>
    }

\* is_background_service: updater, update, helper, sync, backup, nvidia, amd, geforce, radeon, onedrive, dropbox, google drive, toolbox
background_services ==
    {
     <<"u", "p", "d", "a", "t", "e", "r">>,
     <<"u", "p", "d", "a", "t", "e">>,
     <<"h", "e", "l", "p", "e", "r">>,
     <<"s", "y", "n", "c">>,
     <<"b", "a", "c", "k", "u", "p">>,
     <<"n", "v", "i", "d", "i", "a">>,
     <<"a", "m", "d">>,
     <<"g", "e", "f", "o", "r", "c", "e">>,
     <<"r", "a", "d", "e", "o", "n">>,
     <<"o", "n", "e", "d", "r", "i", "v", "e">>,
     <<"d", "r", "o", "p", "b", "o", "x">>,
     <<"g", "o", "o", "g", "l", "e", " ", "d", "r", "i", "v", "e">>,
     <<"t", "o", "o", "l", "b", "o", "x">>
    }

\* is_productivity: chrome, firefox, edge, opera, brave, vivaldi, excel, word, powerpoint, outlook, onenote, vscode, code, pycharm, intellij, rider, sublime, spotify, vlc, itunes, notion, obsidian
productivity_apps ==
    {
     <<"c", "h", "r", "o", "m", "e">>,
     <<"f", "i", "r", "e", "f", "o", "x">>,
     <<"e", "d", "g", "e">>,
     <<"o", "p", "e", "r", "a">>,
     <<"b", "r", "a", "v", "e">>,
     <<"v", "i", "v", "a", "l", "d", "i">>,
     <<"e", "x", "c", "e", "l">>,
     <<"w", "o", "r", "d">>,
     <<"p", "o", "w", "e", "r", "p", "o", "i", "n", "t">>,
     <<"o", "u", "t", "l", "o", "o", "k">>,
     <<"o", "n", "e", "n", "o", "t", "e">>,
     <<"v", "s", "c", "o", "d", "e">>,
     <<"c", "o", "d", "e">>,
     <<"p", "y", "c", "h", "a", "r", "m">>,
     <<"i", "n", "t", "e", "l", "l", "i", "j">>,
     <<"r", "i", "d", "e", "r">>,
     <<"s", "u", "b", "l", "i", "m", "e">>,
     <<"s", "p", "o", "t", "i", "f", "y">>,
     <<"v", "l", "c">>,
     <<"i", "t", "u", "n", "e", "s">>,
     <<"n", "o", "t", "i", "o", "n">>,
     <<"o", "b", "s", "i", "d", "i", "a", "n">>
    }

ContainsAny(s, pats) == \E pat \in pats : contains(s, pat)

\* Mutant: a name is critical as soon as it contains a critical name.
is_critical_contains(name) == ContainsAny(to_lowercase(name), critical)

\* DefaultCategorizer::is_critical.
is_critical(name) == \E c \in critical : eq_ignore_ascii_case(name, c)

is_gaming_by_name(name) ==
    LET name_lower == to_lowercase(name) IN
    \/ ContainsAny(name_lower, game_launchers)
    \/ ContainsAny(name_lower, anti_cheat)
    \/ contains(name_lower, <<"g", "a", "m", "e">>) /\ contains(name_lower, <<".", "e", "x", "e">>)

is_gaming_by_path(path) == ContainsAny(to_lowercase(path), gaming_paths)

is_communication(name) == ContainsAny(to_lowercase(name), communication_apps)

is_background_service(name) == ContainsAny(to_lowercase(name), background_services)

is_productivity(name) == ContainsAny(to_lowercase(name), productivity_apps)

\* Mutant: the background-service list is consulted before the gaming checks.
categorize_services_first(pid, name, path) ==
    IF is_critical(name) THEN "Critical"
    ELSE IF is_background_service(name) THEN "BackgroundService"
    ELSE IF is_gaming_by_path(path) \/ is_gaming_by_name(name) THEN "Gaming"
    ELSE IF is_communication(name) THEN "Communication"
    ELSE IF is_productivity(name) THEN "Productivity"
    ELSE "Unknown"

\* DefaultCategorizer::categorize.
categorize(pid, name, path) ==
    IF is_critical(name) THEN "Critical"
    ELSE IF is_gaming_by_path(path) \/ is_gaming_by_name(name) THEN "Gaming"
    ELSE IF is_communication(name) THEN "Communication"
    ELSE IF is_background_service(name) THEN "BackgroundService"
    ELSE IF is_productivity(name) THEN "Productivity"
    ELSE "Unknown"


\* ------------------------------------------------------------- persistence
\* FrozenProcess::new(pid, ..): the record is stamped with the current time.
FrozenProcess(p, t) == [pid |-> p, timestamp |-> t]

\* now - self.timestamp is a u64 subtraction: it underflows when the timestamp
\* is later than now.  With overflow checks on (debug profile) that panics.
Underflows(r, t) == r.timestamp > t

\* FrozenProcess::is_stale where it returns.  With overflow checks off the
\* underflowing difference wraps to 2^64 - (timestamp - now), which exceeds
\* MAX_STATE_AGE_SECS for every timestamp less than 2^64 - 3600 seconds ahead
\* of now: the record is reported stale.
is_stale(r, t) ==
    IF Underflows(r, t) THEN TRUE ELSE t - r.timestamp > MAX_STATE_AGE_SECS

\* PersistentState::get_valid_processes.
get_valid_processes(recs, t) == SelectSeq(recs, LAMBDA r : ~is_stale(r, t))

DigitChars == <<"0", "1", "2", "3", "4", "5", "6", "7", "8", "9">>

\* serde_json writes an unsigned integer as its decimal digits ...
RECURSIVE Digits(_)
Digits(n) ==
    IF n < 10 THEN <<DigitChars[n + 1]>>
    ELSE Digits(n \div 10) \o <<DigitChars[(n % 10) + 1]>>

\* ... and reads it back digit by digit.
RECURSIVE ParseNumber(_)
ParseNumber(d) ==
    IF d = <<>> THEN 0
    ELSE ParseNumber(SubSeq(d, 1, Len(d) - 1)) * 10
         + ((CHOOSE i \in 1 .. Len(DigitChars) : DigitChars[i] = d[Len(d)]) - 1)

\* Mutant: the backslash is written without its escape.
RECURSIVE EscapeQuoteOnly(_)
EscapeQuoteOnly(str) ==
    IF str = <<>> THEN <<>>
    ELSE (IF Head(str) = "\"" THEN <<"\\", Head(str)>> ELSE <<Head(str)>>)
         \o EscapeQuoteOnly(Tail(str))

\* serde_json writes a string with a backslash before every quote and backslash
\* (the strings of the model hold no control characters) ...
RECURSIVE Escape(_)
Escape(str) ==
    IF str = <<>> THEN <<>>
    ELSE (IF Head(str) \in {"\"", "\\"} THEN <<"\\", Head(str)>> ELSE <<Head(str)>>)
         \o Escape(Tail(str))

\* ... and reads it back: a backslash stands for the character after it.
RECURSIVE Unescape(_)
Unescape(e) ==
    IF e = <<>> THEN <<>>
    ELSE IF Head(e) = "\\" /\ Len(e) >= 2 THEN <<e[2]>> \o Unescape(Tail(Tail(e)))
    ELSE <<Head(e)>> \o Unescape(Tail(e))

\* The u32 and u64 fields of FrozenProcess; name and exe_path are strings.  The
\* records of the daemon model carry pid and timestamp only, the store calls
\* carry all four fields.
NumberFields == {"pid", "timestamp"}

\* One FrozenProcess as a JSON object: each field as the text of its value.
to_json(r) ==
    [k \in DOMAIN r |-> IF k \in NumberFields THEN Digits(r[k]) ELSE Escape(r[k])]
from_json(j) ==
    [k \in DOMAIN j |-> IF k \in NumberFields THEN ParseNumber(j[k]) ELSE Unescape(j[k])]

\* serde_json::to_string_pretty(state) and serde_json::from_str(content): the
\* document is {"frozen_processes": [ ... ]}.
to_string_pretty(recs) == [frozen_processes |-> [i \in 1 .. Len(recs) |-> to_json(recs[i])]]
from_str(content) ==
    [i \in 1 .. Len(content.frozen_processes) |-> from_json(content.frozen_processes[i])]

NoFile == [kind |-> "absent"]
CorruptFile == [kind |-> "corrupt"]
StateFile(recs) == [kind |-> "state", content |-> to_string_pretty(recs)]

\* How fs::write can end: the content is replaced; File::create fails and the
\* file is as it was; create has truncated the file and write_all fails.
SaveOutcomes == {"ok", "err_create", "err_write"}

\* FileStatePersistence::save.
save(f, recs, outcome) ==
    CASE outcome = "ok" -> StateFile(recs)
      [] outcome = "err_create" -> f
      [] OTHER -> CorruptFile

\* fs::remove_file returns Ok or Err.
DeleteOutcomes == {"ok", "err"}

\* Mutant: delete reports Ok and leaves the file where it is.
delete_keeps_file(f, outcome) == f

\* FileStatePersistence::delete: the file afterwards.  Without a file nothing
\* is called; a failed remove_file leaves the file.
delete(f, outcome) == IF f.kind = "absent" \/ outcome = "ok" THEN NoFile ELSE f

\* FileStatePersistence::delete: Ok(()) unless remove_file failed.
delete_ok(f, outcome) == f.kind = "absent" \/ outcome = "ok"

\* FileStatePersistence::load: Ok(None) without a file, Err for a file that
\* cannot be read or parsed, Ok(Some(state)) otherwise.
load(f) ==
    CASE f.kind = "absent" -> [ok |-> TRUE, some |-> FALSE]
      [] f.kind = "corrupt" -> [ok |-> FALSE, some |-> FALSE]
      [] OTHER -> [ok |-> TRUE, some |-> TRUE, state |-> from_str(f.content)]

\* ------------------------------------------------------------ daemon state
add_frozen(fp, p) == fp \cup {p}

toggle_enabled(e) == ~e

\* Mutant: the pid is recorded whatever freeze_process returned.
OnFreezeResultAlways(fp, p, ok) == add_frozen(fp, p)

\* The Result of a controller call as the daemon reads it: Ok(_) or Err(_).
\* service.rs:122-139: a pid joins frozen_pids only on Ok.
OnFreezeResult(fp, p, ok) == IF ok THEN add_frozen(fp, p) ELSE fp

\* service.rs:125: a record is appended to the state to persist only on Ok.
OnFreezePersist(ps, p, ok, t) == IF ok THEN Append(ps, FrozenProcess(p, t)) ELSE ps

\* Mutants: the loop is left at the first failure.
FreezeRestStopOnErr(q, ok) == IF ok THEN Tail(q) ELSE <<>>
ResumeRestStopOnErr(q, ok) == IF ok THEN Tail(q) ELSE <<>>

\* The three for-loops go on to the next item whatever the result of this one.
FreezeRest(q, ok) == Tail(q)
ResumeRest(q, ok) == Tail(q)
RecoverRest(q, ok) == Tail(q)

\* Mutant: the resume branch tests game_detected the wrong way round, so it is
\* never taken while processes are frozen.
TransitionNoResume(gaming_running, gd) ==
    IF gaming_running /\ ~gd THEN "freeze"
    ELSE IF ~gaming_running /\ ~gd THEN "resume"
    ELSE "none"

\* service.rs:111 and :154: which batch a tick runs.
Transition(gaming_running, gd) ==
    IF gaming_running /\ ~gd THEN "freeze"
    ELSE IF ~gaming_running /\ gd THEN "resume"
    ELSE "none"

\* ---------------------------------------------------------------- variables
VARIABLES
    pc,                \* startup code, then monitor_loop: where it stands
    ui_pc,             \* tray event loop: "idle", "toggle" (event taken, before lock()), "locked"
    lock,              \* owner of the Mutex<DaemonState>: "free", "poll" or "ui"
    enabled,           \* DaemonState.enabled
    game_detected,     \* DaemonState.game_detected
    frozen_pids,       \* DaemonState.frozen_pids
    config,            \* FreezeConfig of the engine
    file,              \* the persisted state file
    now,               \* SystemTime::now() as seconds
    game_running,      \* environment: some running process is categorized Gaming
    valid,             \* recover_from_crash: records still to resume
    safe,              \* monitor_loop: processes of `safe` still to freeze
    persistent_state,  \* monitor_loop: the PersistentState being accumulated
    pids,              \* monitor_loop: drained pids still to resume
    suspended,         \* history: pids the daemon froze (Ok) with no resume call since
    unresumed,         \* history: pids the daemon froze (Ok) with no successful resume since
    tick,              \* history: what the current poll tick has done so far
    boot,              \* history: the file found at startup, the recovery's resume calls
    batch,             \* freeze_multiple / resume_multiple in progress
    call               \* a library function called on its own: arguments, then result

vars ==
    <<pc, ui_pc, lock, enabled, game_detected, frozen_pids, config, file, now,
      game_running, valid, safe, persistent_state, pids, suspended, unresumed, tick,
      boot, batch, call>>

daemon_state == <<enabled, game_detected, frozen_pids>>
locals == <<valid, safe, persistent_state, pids>>

\* ------------------------------------------------------------------- inputs
\* The daemon starts MAX_STATE_AGE_SECS + 1 seconds after the epoch of the model.
StartTime == MAX_STATE_AGE_SECS + 1

\* Timestamps a file left by an earlier run can carry: older than the limit,
\* exactly as old as the limit, fresh, and later than now (the clock was set back).
BootTimestamps == {0, 1, StartTime, StartTime + 1}

BootRecords == [pid : Pids, timestamp : BootTimestamps]

\* Files an earlier run can have left: none, an unreadable one, or a saved state
\* (the daemon writes at most one record per pid); of two records the second
\* is a fresh one.
BootFiles ==
    {NoFile, CorruptFile}
    \cup {StateFile(<<>>)}
    \cup {StateFile(<<r>>) : r \in BootRecords}
    \cup {StateFile(<<q[1], q[2]>>) :
              q \in {x \in BootRecords \X BootRecords :
                        x[1].pid # x[2].pid /\ x[2].timestamp = StartTime}}

Configs == [min_memory_mb : {DefaultThresholdMb}, keep_communication : BOOLEAN]

\* A record the selection must never pick: foreground, Critical or Gaming.
Protected(p) == p.is_foreground \/ p.category \in {"Critical", "Gaming"}

\* What one enumerate() call can return while the environment is in state g.
EnumResults(g) ==
    {[ok |-> FALSE]}
    \cup {[ok |-> TRUE, procs |-> enumerate(t)] : t \in {u \in Tables : HasGaming(u) = g}}

NoTick ==
    [active |-> FALSE, pre_gd |-> FALSE, pre_frozen |-> {}, pre_file |-> NoFile,
     was_enabled |-> "unread", gaming |-> "none", world_game |-> "none", enum_count |-> 0, safe_res |-> "none",
     selected |-> <<>>, unsafe_seen |-> {}, freezes |-> <<>>, resumes |-> <<>>, drained |-> {}, saves |-> <<>>]

NoBoot == [active |-> FALSE, file |-> NoFile, calls |-> <<>>]

NoBatch == [op |-> "none", input |-> <<>>, idx |-> 1, out |-> <<>>, log |-> <<>>]

NoCall == [op |-> "none", done |-> FALSE]

Init ==
    /\ pc = "boot"
    /\ ui_pc = "idle"
    /\ lock = "free"
    /\ enabled = TRUE
    /\ game_detected = FALSE
    /\ frozen_pids = {}
    /\ config \in Configs
    /\ file \in BootFiles
    /\ now = StartTime
    /\ game_running \in BOOLEAN
    /\ valid = <<>>
    /\ safe = <<>>
    /\ persistent_state = <<>>
    /\ pids = <<>>
    /\ suspended = {}
    /\ unresumed = {}
    /\ tick = NoTick
    /\ boot = [active |-> TRUE, file |-> file, calls |-> <<>>]
    /\ batch = NoBatch
    /\ call = NoCall

\* ------------------------------------------------------ recover_from_crash
\* persistence.load() and get_valid_processes().  An underflowing is_stale
\* either panics (overflow checks on) or wraps.
RecoverLoad ==
    /\ pc = "boot"
    /\ LET l == load(file) IN
       IF l.ok /\ l.some
       THEN \/ /\ \E i \in 1 .. Len(l.state) : Underflows(l.state[i], now)
               /\ pc' = "panicked"
               /\ UNCHANGED valid
            \/ /\ valid' = get_valid_processes(l.state, now)
               /\ pc' = "recover"
       ELSE /\ pc' = "spawn"
            /\ UNCHANGED valid
    /\ UNCHANGED <<ui_pc, lock, daemon_state, config, file, now, game_running, safe,
                   persistent_state, pids, suspended, unresumed, tick, boot, batch, call>>

\* One round of `for frozen in valid`: controller.resume(frozen.pid).
RecoverResume ==
    /\ pc = "recover"
    /\ valid # <<>>
    /\ \E ok \in BOOLEAN :
        /\ boot' = [boot EXCEPT !.calls = Append(@, [pid |-> Head(valid).pid, ok |-> ok])]
        /\ valid' = RecoverRest(valid, ok)
        /\ unresumed' = (IF ok THEN unresumed \ {Head(valid).pid} ELSE unresumed)
    /\ suspended' = suspended \ {Head(valid).pid}
    /\ UNCHANGED <<pc, ui_pc, lock, daemon_state, config, file, now, game_running, safe,
                   persistent_state, pids, tick, batch, call>>

\* let _ = persistence.delete(), after the loop.
RecoverDelete ==
    /\ pc = "recover"
    /\ valid = <<>>
    /\ \E outcome \in DeleteOutcomes : file' = delete(file, outcome)
    /\ pc' = "spawn"
    /\ UNCHANGED <<ui_pc, lock, daemon_state, config, now, game_running, locals,
                   suspended, unresumed, tick, boot, batch, call>>

\* run_daemon: DaemonState::new(), thread::spawn(monitor_loop), run_system_tray.
StartMonitor ==
    /\ pc = "spawn"
    /\ pc' = "sleep"
    /\ enabled' = TRUE
    /\ game_detected' = FALSE
    /\ frozen_pids' = {}
    /\ boot' = NoBoot
    /\ UNCHANGED <<ui_pc, lock, config, file, now, game_running, locals, suspended, unresumed,
                   tick, batch, call>>

\* ------------------------------------------------------------ monitor_loop
\* thread::sleep is over; state.lock().
PollLock ==
    /\ pc = "sleep"
    /\ lock = "free"
    /\ lock' = "poll"
    /\ pc' = "check"
    /\ tick' = [NoTick EXCEPT !.active = TRUE, !.pre_gd = game_detected,
                              !.pre_frozen = frozen_pids, !.pre_file = file]
    /\ UNCHANGED <<ui_pc, daemon_state, config, file, now, game_running, locals,
                   suspended, unresumed, boot, batch, call>>

\* Mutant: a disabled tick also forgets the detected game.
PollSkipResets ==
    /\ pc = "check"
    /\ ~enabled
    /\ pc' = "tick_end"
    /\ game_detected' = FALSE
    /\ tick' = [tick EXCEPT !.was_enabled = "no"]
    /\ UNCHANGED <<ui_pc, lock, enabled, frozen_pids, config, file, now, game_running,
                   locals, suspended, unresumed, boot, batch, call>>

\* Mutant: `continue` goes back to the sleep with state_guard still alive.
PollSkipKeepsLock ==
    /\ pc = "check"
    /\ ~enabled
    /\ pc' = "sleep"
    /\ tick' = NoTick
    /\ UNCHANGED <<ui_pc, lock, daemon_state, config, file, now, game_running, locals,
                   suspended, unresumed, boot, batch, call>>

\* if !state_guard.is_enabled() { continue; }
PollSkip ==
    /\ pc = "check"
    /\ ~enabled
    /\ pc' = "tick_end"
    /\ tick' = [tick EXCEPT !.was_enabled = "no"]
    /\ UNCHANGED <<ui_pc, lock, daemon_state, config, file, now, game_running, locals,
                   suspended, unresumed, boot, batch, call>>

\* find_gaming_processes(), then the branch on gaming_running and game_detected.
PollDetect ==
    /\ pc = "check"
    /\ enabled
    /\ \E res \in EnumResults(game_running) :
        LET gaming_running == GamingRunning(res)
            tr == Transition(gaming_running, game_detected)
        IN  /\ tick' = [tick EXCEPT !.was_enabled = "yes",
                                    !.enum_count = @ + 1,
                                    !.world_game = IF game_running THEN "yes" ELSE "no",
                                    !.gaming = IF ~res.ok THEN "err"
                                               ELSE IF gaming_running THEN "game"
                                               ELSE "nogame",
                                    !.drained = IF tr = "resume" THEN frozen_pids ELSE {}]
            /\ game_detected' = (IF tr = "freeze" THEN TRUE
                                 ELSE IF tr = "resume" THEN FALSE
                                 ELSE game_detected)
            /\ IF tr = "resume"
               THEN /\ pids' \in Orders(frozen_pids)
                    /\ frozen_pids' = {}
               ELSE UNCHANGED <<pids, frozen_pids>>
            /\ pc' = (IF tr = "freeze" THEN "find_safe"
                      ELSE IF tr = "resume" THEN "resume"
                      ELSE "tick_end")
    /\ UNCHANGED <<ui_pc, lock, enabled, config, file, now, game_running, valid, safe,
                   persistent_state, suspended, unresumed, boot, batch, call>>

\* if let Ok(safe) = engine.find_safe_to_freeze() { ... } else { eprintln }
PollFindSafe ==
    /\ pc = "find_safe"
    /\ \E res \in EnumResults(game_running) :
        IF res.ok
        THEN /\ safe' = find_safe_to_freeze(res.procs, config)
             /\ persistent_state' = <<>>
             /\ pc' = "freeze"
             /\ tick' = [tick EXCEPT !.enum_count = @ + 1, !.safe_res = "ok",
                                     !.selected = find_safe_to_freeze(res.procs, config),
                                     !.unsafe_seen = PidsOf(SelectSeq(res.procs, Protected))]
        ELSE /\ pc' = "tick_end"
             /\ tick' = [tick EXCEPT !.enum_count = @ + 1, !.safe_res = "err"]
             /\ UNCHANGED <<safe, persistent_state>>
    /\ UNCHANGED <<ui_pc, lock, daemon_state, config, file, now, game_running, valid,
                   pids, suspended, unresumed, boot, batch, call>>

\* One round of `for process in safe`: engine.freeze_process(process.pid).
PollFreeze ==
    /\ pc = "freeze"
    /\ safe # <<>>
    /\ \E ok \in BOOLEAN :
        LET process == Head(safe) IN
        /\ frozen_pids' = OnFreezeResult(frozen_pids, process.pid, ok)
        /\ persistent_state' = OnFreezePersist(persistent_state, process.pid, ok, now)
        /\ suspended' = (IF ok THEN suspended \cup {process.pid} ELSE suspended)
        /\ unresumed' = (IF ok THEN unresumed \cup {process.pid} ELSE unresumed)
        /\ tick' = [tick EXCEPT !.freezes = Append(@, [process |-> process, ok |-> ok])]
        /\ safe' = FreezeRest(safe, ok)
    /\ UNCHANGED <<pc, ui_pc, lock, enabled, game_detected, config, file, now,
                   game_running, valid, pids, boot, batch, call>>

\* Mutant: a failed save undoes the batch.
PollSaveFrozenRollsBack ==
    /\ pc = "freeze"
    /\ safe = <<>>
    /\ \E outcome \in SaveOutcomes :
        /\ file' = save(file, persistent_state, outcome)
        /\ tick' = [tick EXCEPT !.saves =
                        Append(@, [state |-> persistent_state, outcome |-> outcome])]
        /\ frozen_pids' = (IF outcome = "ok" THEN frozen_pids ELSE {})
    /\ pc' = "tick_end"
    /\ UNCHANGED <<ui_pc, lock, enabled, game_detected, config, now, game_running, locals,
                   suspended, unresumed, boot, batch, call>>

\* persistence.save(&persistent_state) after the freeze loop.
PollSaveFrozen ==
    /\ pc = "freeze"
    /\ safe = <<>>
    /\ \E outcome \in SaveOutcomes :
        /\ file' = save(file, persistent_state, outcome)
        /\ tick' = [tick EXCEPT !.saves =
                        Append(@, [state |-> persistent_state, outcome |-> outcome])]
    /\ pc' = "tick_end"
    /\ UNCHANGED <<ui_pc, lock, daemon_state, config, now, game_running, locals,
                   suspended, unresumed, boot, batch, call>>

\* One round of `for pid in pids`: engine.resume_process(pid).
PollResume ==
    /\ pc = "resume"
    /\ pids # <<>>
    /\ \E ok \in BOOLEAN :
        /\ tick' = [tick EXCEPT !.resumes = Append(@, [pid |-> Head(pids), ok |-> ok])]
        /\ pids' = ResumeRest(pids, ok)
        /\ unresumed' = (IF ok THEN unresumed \ {Head(pids)} ELSE unresumed)
    /\ suspended' = suspended \ {Head(pids)}
    /\ UNCHANGED <<pc, ui_pc, lock, daemon_state, config, file, now, game_running, valid,
                   safe, persistent_state, boot, batch, call>>

\* persistence.save(&PersistentState::new()) after the resume loop.
PollSaveEmpty ==
    /\ pc = "resume"
    /\ pids = <<>>
    /\ \E outcome \in SaveOutcomes :
        /\ file' = save(file, <<>>, outcome)
        /\ tick' = [tick EXCEPT !.saves = Append(@, [state |-> <<>>, outcome |-> outcome])]
    /\ pc' = "tick_end"
    /\ UNCHANGED <<ui_pc, lock, daemon_state, config, now, game_running, locals,
                   suspended, unresumed, boot, batch, call>>

\* End of the loop body (or `continue`): state_guard is dropped, the thread sleeps.
PollUnlock ==
    /\ pc = "tick_end"
    /\ pc' = "sleep"
    /\ lock' = "free"
    /\ tick' = NoTick
    /\ persistent_state' = <<>>
    /\ UNCHANGED <<ui_pc, daemon_state, config, file, now, game_running, valid, safe,
                   pids, suspended, unresumed, boot, batch, call>>

Started == pc \in {"sleep", "check", "find_safe", "freeze", "resume", "tick_end"}

\* ------------------------------------------------------------- tray thread
\* menu_channel.try_recv() yields a click on the enable item.
UiMenuEvent ==
    /\ Started
    /\ ui_pc = "idle"
    /\ ui_pc' = "toggle"
    /\ UNCHANGED <<pc, lock, daemon_state, config, file, now, game_running, locals,
                   suspended, unresumed, tick, boot, batch, call>>

\* let mut state_guard = state.lock().unwrap(): returns once the mutex is free.
UiLock ==
    /\ ui_pc = "toggle"
    /\ lock = "free"
    /\ lock' = "ui"
    /\ ui_pc' = "locked"
    /\ UNCHANGED <<pc, daemon_state, config, file, now, game_running, locals,
                   suspended, unresumed, tick, boot, batch, call>>

\* Mutant: switching off also forgets the frozen pids.
UiToggleResumes ==
    /\ ui_pc = "locked"
    /\ enabled' = toggle_enabled(enabled)
    /\ frozen_pids' = {}
    /\ lock' = "free"
    /\ ui_pc' = "idle"
    /\ UNCHANGED <<pc, game_detected, config, file, now, game_running,
                   locals, suspended, unresumed, tick, boot, batch, call>>

\* Mutant: the handler flips the flag without taking the mutex.
UiToggleNoLock ==
    /\ ui_pc \in {"toggle", "locked"}
    /\ enabled' = toggle_enabled(enabled)
    /\ lock' = (IF ui_pc = "locked" THEN "free" ELSE lock)
    /\ ui_pc' = "idle"
    /\ UNCHANGED <<pc, game_detected, frozen_pids, config, file, now, game_running,
                   locals, suspended, unresumed, tick, boot, batch, call>>

\* Mutant: the toggle also forgets the detected game.
UiToggleForgetsGame ==
    /\ ui_pc = "locked"
    /\ enabled' = toggle_enabled(enabled)
    /\ game_detected' = FALSE
    /\ lock' = "free"
    /\ ui_pc' = "idle"
    /\ UNCHANGED <<pc, frozen_pids, config, file, now, game_running,
                   locals, suspended, unresumed, tick, boot, batch, call>>

\* state_guard.toggle_enabled(); state_guard.is_enabled(); drop(state_guard).
UiToggle ==
    /\ ui_pc = "locked"
    /\ enabled' = toggle_enabled(enabled)
    /\ lock' = "free"
    /\ ui_pc' = "idle"
    /\ UNCHANGED <<pc, game_detected, frozen_pids, config, file, now, game_running,
                   locals, suspended, unresumed, tick, boot, batch, call>>

\* -------------------------------------------------------------- environment
GameStarts ==
    /\ ~game_running
    /\ game_running' = TRUE
    /\ UNCHANGED <<pc, ui_pc, lock, daemon_state, config, file, now, locals, suspended, unresumed,
                   tick, boot, batch, call>>

GameExits ==
    /\ game_running
    /\ game_running' = FALSE
    /\ UNCHANGED <<pc, ui_pc, lock, daemon_state, config, file, now, locals, suspended, unresumed,
                   tick, boot, batch, call>>

Recover == RecoverLoad \/ RecoverResume \/ RecoverDelete \/ StartMonitor

Poll ==
    \/ PollLock
    \/ PollSkip
    \/ PollDetect
    \/ PollFindSafe
    \/ PollFreeze
    \/ PollSaveFrozen
    \/ PollResume
    \/ PollSaveEmpty
    \/ PollUnlock

Next == Recover \/ Poll \/ UiMenuEvent \/ UiLock \/ UiToggle \/ GameStarts \/ GameExits

Spec == Init /\ [][Next]_vars

\* The poll thread is scheduled and its sleeps and OS calls return; so does the
\* startup code of the main thread, and the tray handler, once it holds the
\* mutex, runs to its drop(state_guard).
LiveSpec == Spec /\ WF_vars(Recover) /\ WF_vars(Poll) /\ WF_vars(UiToggle)

\* ------------------------------------------------------ tray thread: Quit
\* What controller.restart_process(&frozen.exe_path) can do to the process of
\* the record: Err; Ok with a new process started beside the suspended one; Ok
\* with the suspended one replaced by the new process.
RestartOutcomes == {"err", "started", "replaced"}

\* The pids whose suspended process restart_process has replaced.
Replaced(recs, outcome) == {recs[i].pid : i \in {j \in 1 .. Len(recs) : outcome[j] = "replaced"}}

\* A click on the quit item: persistence.load(), get_valid_processes() and the
\* loop of restart_process calls, all without the mutex.  An is_stale that
\* underflows panics on the main thread (overflow checks on), which ends the
\* process, or wraps.
UiQuitRestart ==
    /\ Started
    /\ ui_pc = "idle"
    /\ LET l == load(file) IN
       IF l.ok /\ l.some
       THEN \/ /\ \E i \in 1 .. Len(l.state) : Underflows(l.state[i], now)
               /\ ui_pc' = "panicked"
               /\ pc' = "exited"
               /\ UNCHANGED <<suspended, unresumed>>
            \/ LET recs == get_valid_processes(l.state, now) IN
               \E outcome \in [1 .. Len(recs) -> RestartOutcomes] :
                   /\ suspended' = suspended \ Replaced(recs, outcome)
                   /\ unresumed' = unresumed \ Replaced(recs, outcome)
                   /\ ui_pc' = "quit_save"
                   /\ UNCHANGED pc
       ELSE /\ ui_pc' = "quit_save"
            /\ UNCHANGED <<pc, suspended, unresumed>>
    /\ UNCHANGED <<lock, daemon_state, config, file, now, game_running, locals,
                   tick, boot, batch, call>>

\* let _ = persistence.save(&PersistentState::new())
UiQuitSave ==
    /\ ui_pc = "quit_save"
    /\ \E outcome \in SaveOutcomes : file' = save(file, <<>>, outcome)
    /\ ui_pc' = "quit_exit"
    /\ UNCHANGED <<pc, lock, daemon_state, config, now, game_running, locals,
                   suspended, unresumed, tick, boot, batch, call>>

\* elwt.exit(): the event loop ends, run_daemon returns and the process exits,
\* the poll thread with it, wherever it stands.
UiQuitExit ==
    /\ ui_pc = "quit_exit"
    /\ ui_pc' = "exited"
    /\ pc' = "exited"
    /\ UNCHANGED <<lock, daemon_state, config, file, now, game_running, locals,
                   suspended, unresumed, tick, boot, batch, call>>

Quit == UiQuitRestart \/ UiQuitSave \/ UiQuitExit

\* The daemon with its Quit menu item.
NextQuit == Next \/ Quit

SpecQuit == Init /\ [][NextQuit]_vars

\* Between two ticks the poll thread sleeps with the mutex free, so a tray
\* handler blocked in lock() is not passed over for ever.
FairSpec == LiveSpec /\ SF_vars(UiLock)

\* ----------------------------------- freeze_multiple / resume_multiple
\* Result<usize> of ProcessController::freeze / resume: Err, or Ok(threads).
ControllerResults == {[ok |-> FALSE]} \cup {[ok |-> TRUE, count |-> n] : n \in 1 .. MaxThreads}

BatchInputs == UNION {[1 .. n -> Pids] : n \in 0 .. MaxBatch}

\* Mutant: the batch ends at the first Err (as collecting into a Result would).
BatchNextStopOnErr(i, r, n) == IF r.ok THEN i + 1 ELSE n + 1

\* pids.iter().map(..).collect(): the item after item i of n, whatever its result.
BatchNext(i, r, n) == i + 1

\* The engine is used on its own (manual freeze / resume): no daemon runs.
InitBatch ==
    /\ pc = "engine"
    /\ ui_pc = "idle"
    /\ lock = "free"
    /\ enabled = TRUE
    /\ game_detected = FALSE
    /\ frozen_pids = {}
    /\ config \in Configs
    /\ file = NoFile
    /\ now = StartTime
    /\ game_running = FALSE
    /\ valid = <<>>
    /\ safe = <<>>
    /\ persistent_state = <<>>
    /\ pids = <<>>
    /\ suspended = {}
    /\ unresumed = {}
    /\ tick = NoTick
    /\ boot = NoBoot
    /\ batch \in {[op |-> o, input |-> s, idx |-> 1, out |-> <<>>, log |-> <<>>] :
                    o \in {"freeze", "resume"}, s \in BatchInputs}
    /\ call = NoCall

\* One item of the map: (pid, self.freeze_process(pid)) or (pid, self.resume_process(pid)).
BatchStep ==
    /\ pc = "engine"
    /\ batch.idx <= Len(batch.input)
    /\ \E r \in ControllerResults :
        LET pid == batch.input[batch.idx] IN
        batch' = [batch EXCEPT
                    !.log = Append(@, [op |-> batch.op, pid |-> pid, result |-> r]),
                    !.out = Append(@, <<pid, r>>),
                    !.idx = BatchNext(@, r, Len(batch.input))]
    /\ UNCHANGED <<pc, ui_pc, lock, daemon_state, config, file, now, game_running, locals,
                   suspended, unresumed, tick, boot, call>>

SpecBatch == InitBatch /\ [][BatchStep]_vars

\* ------------------------------------------- library functions on their own
\* Every ProcessInfo the enumerator can build.
ProcessInfos == {ProcessInfo(p, slot) : p \in Pids, slot \in Slots \ {NoProc}}

\* Calls of the selection policy: is_safe_to_freeze on a record, and
\* find_safe_to_freeze on an engine whose enumerator returns `res`.
PolicyCalls ==
    {[op |-> "is_safe_to_freeze", done |-> FALSE, p |-> p, keep_communication |-> k] :
        p \in ProcessInfos, k \in BOOLEAN}
    \cup {[op |-> "find_safe_to_freeze", done |-> FALSE, res |-> res, cfg |-> cfg] :
            res \in EnumResults(TRUE) \cup EnumResults(FALSE), cfg \in Configs}

\* The state in which a library function is called on its own: no daemon runs.
InitCall(calls) ==
    /\ pc = "call"
    /\ ui_pc = "idle"
    /\ lock = "free"
    /\ enabled = TRUE
    /\ game_detected = FALSE
    /\ frozen_pids = {}
    /\ config \in Configs
    /\ file = NoFile
    /\ now = StartTime
    /\ game_running = FALSE
    /\ valid = <<>>
    /\ safe = <<>>
    /\ persistent_state = <<>>
    /\ pids = <<>>
    /\ suspended = {}
    /\ unresumed = {}
    /\ tick = NoTick
    /\ boot = NoBoot
    /\ batch = NoBatch
    /\ call \in calls

CallFrame ==
    UNCHANGED <<pc, ui_pc, lock, daemon_state, config, file, now, game_running, locals,
                suspended, unresumed, tick, boot, batch>>

\* process.is_safe_to_freeze(keep_communication)
CallIsSafeToFreeze ==
    /\ pc = "call"
    /\ call.op = "is_safe_to_freeze"
    /\ ~call.done
    /\ call' = [call EXCEPT !.done = TRUE] @@
                [result |-> is_safe_to_freeze(call.p, call.keep_communication)]
    /\ CallFrame

\* engine.find_safe_to_freeze(): `?` hands the enumeration error on, Ok wraps the
\* filtered list.
CallFindSafeToFreeze ==
    /\ pc = "call"
    /\ call.op = "find_safe_to_freeze"
    /\ ~call.done
    /\ call' = [call EXCEPT !.done = TRUE] @@
                [result |-> IF call.res.ok
                            THEN [ok |-> TRUE, list |-> find_safe_to_freeze(call.res.procs, call.cfg)]
                            ELSE [ok |-> FALSE]]
    /\ CallFrame

InitPolicy == InitCall(PolicyCalls)
SpecPolicy == InitPolicy /\ [][CallIsSafeToFreeze \/ CallFindSafeToFreeze]_vars

\* Image names the categorizer is called with: explorer.exe, EXPLORER.EXE, Explorer.exe, myexplorer.exe, system, SystemSettings.exe, svchost.exe, steam.exe, Steam.exe, steamwebhelper.exe, discord.exe, Discord.exe, Teams.exe, msteams.exe, slack_updater.exe, OneDrive.exe, MicrosoftEdgeUpdate.exe, chrome.exe, Code.exe, GameBar.exe, notepad.exe
ProcessNames ==
    {
     <<"e", "x", "p", "l", "o", "r", "e", "r", ".", "e", "x", "e">>,
     <<"E", "X", "P", "L", "O", "R", "E", "R", ".", "E", "X", "E">>,
     <<"E", "x", "p", "l", "o", "r", "e", "r", ".", "e", "x", "e">>,
     <<"m", "y", "e", "x", "p", "l", "o", "r", "e", "r", ".", "e", "x", "e">>,
     <<"s", "y", "s", "t", "e", "m">>,
     <<"S", "y", "s", "t", "e", "m", "S", "e", "t", "t", "i", "n", "g", "s", ".", "e", "x", "e">>,
     <<"s", "v", "c", "h", "o", "s", "t", ".", "e", "x", "e">>,
     <<"s", "t", "e", "a", "m", ".", "e", "x", "e">>,
     <<"S", "t", "e", "a", "m", ".", "e", "x", "e">>,
     <<"s", "t", "e", "a", "m", "w", "e", "b", "h", "e", "l", "p", "e", "r", ".", "e", "x", "e">>,
     <<"d", "i", "s", "c", "o", "r", "d", ".", "e", "x", "e">>,
     <<"D", "i", "s", "c", "o", "r", "d", ".", "e", "x", "e">>,
     <<"T", "e", "a", "m", "s", ".", "e", "x", "e">>,
     <<"m", "s", "t", "e", "a", "m", "s", ".", "e", "x", "e">>,
     <<"s", "l", "a", "c", "k", "_", "u", "p", "d", "a", "t", "e", "r", ".", "e", "x", "e">>,
     <<"O", "n", "e", "D", "r", "i", "v", "e", ".", "e", "x", "e">>,
     <<"M", "i", "c", "r", "o", "s", "o", "f", "t", "E", "d", "g", "e", "U", "p", "d", "a", "t", "e", ".", "e", "x", "e">>,
     <<"c", "h", "r", "o", "m", "e", ".", "e", "x", "e">>,
     <<"C", "o", "d", "e", ".", "e", "x", "e">>,
     <<"G", "a", "m", "e", "B", "a", "r", ".", "e", "x", "e">>,
     <<"n", "o", "t", "e", "p", "a", "d", ".", "e", "x", "e">>
    }

\* Directories an image can be started from: C:\Windows\, C:\Users\u\AppData\Local\Discord\, D:\Games\Tools\, C:\Program Files (x86)\Steam\
Directories ==
    {
     <<"C", ":", "\\", "W", "i", "n", "d", "o", "w", "s", "\\">>,
     <<"C", ":", "\\", "U", "s", "e", "r", "s", "\\", "u", "\\", "A", "p", "p", "D", "a", "t", "a", "\\", "L", "o", "c", "a", "l", "\\", "D", "i", "s", "c", "o", "r", "d", "\\">>,
     <<"D", ":", "\\", "G", "a", "m", "e", "s", "\\", "T", "o", "o", "l", "s", "\\">>,
     <<"C", ":", "\\", "P", "r", "o", "g", "r", "a", "m", " ", "F", "i", "l", "e", "s", " ", "(", "x", "8", "6", ")", "\\", "S", "t", "e", "a", "m", "\\">>
    }

\* QueryFullProcessImageNameW: directory and image name; a caller of categorize
\* may also pass an empty path.
ProcessPaths(name) == {<<>>} \cup {d \o name : d \in Directories}

CategorizerCalls ==
    {[op |-> "categorize", done |-> FALSE, pid |-> p, name |-> n, path |-> f] :
        p \in Pids, n \in ProcessNames, f \in UNION {ProcessPaths(m) : m \in ProcessNames}}
    \cup {[op |-> "is_critical", done |-> FALSE, name |-> n] : n \in ProcessNames}

\* categorizer.categorize(pid, name, path)
CallCategorize ==
    /\ pc = "call"
    /\ call.op = "categorize"
    /\ ~call.done
    /\ call' = [call EXCEPT !.done = TRUE] @@
                [result |-> categorize(call.pid, call.name, call.path)]
    /\ CallFrame

\* categorizer.is_critical(name)
CallIsCritical ==
    /\ pc = "call"
    /\ call.op = "is_critical"
    /\ ~call.done
    /\ call' = [call EXCEPT !.done = TRUE] @@ [result |-> is_critical(call.name)]
    /\ CallFrame

InitCategorizer == InitCall(CategorizerCalls)
SpecCategorizer == InitCategorizer /\ [][CallCategorize \/ CallIsCritical]_vars


\* ---------------------------------------------------- the store on its own
\* Names and paths of saved records: plain, with a space, with backslashes,
\* with a quote.
StoreNames == {<<"a", ".", "e", "x", "e">>, <<"a", " ", "b">>}
StorePaths == {<<>>, <<"C", ":", "\\", "a", "\\", "a", ".", "e", "x", "e">>, <<"\"", "a", "\"">>}

StoreRecords ==
    [pid : Pids, name : StoreNames, exe_path : StorePaths, timestamp : {0, StartTime}]

\* The PersistentState values a caller saves: up to two records.
StoreStates ==
    {<<>>} \cup {<<r>> : r \in StoreRecords}
    \cup {<<r, q>> : r \in StoreRecords, q \in {x \in StoreRecords : x.timestamp = StartTime}}

\* What the path holds before the first save: nothing, an unreadable file, or
\* a state saved earlier.
StoreFiles == {NoFile, CorruptFile} \cup {StateFile(<<r>>) : r \in StoreRecords}

NoneSaved == [some |-> FALSE]

InitStore ==
    InitCall({[op |-> "store", done |-> FALSE, saves |-> <<>>, last_saved |-> NoneSaved]})

\* The store starts on any of StoreFiles.
StoreOpen ==
    /\ pc = "call"
    /\ call.op = "store"
    /\ pc' = "store"
    /\ file' \in StoreFiles
    /\ UNCHANGED <<ui_pc, lock, daemon_state, config, now, game_running, locals,
                   suspended, unresumed, tick, boot, batch, call>>

\* persistence.save(&state): at most MaxSaves calls before the load.
StoreSave ==
    /\ pc = "store"
    /\ ~call.done
    /\ Len(call.saves) < MaxSaves
    /\ \E st \in StoreStates, outcome \in SaveOutcomes :
        /\ file' = save(file, st, outcome)
        /\ call' = [call EXCEPT
                        !.saves = Append(@, outcome),
                        !.last_saved = IF outcome = "ok"
                                       THEN [some |-> TRUE, state |-> st] ELSE @]
    /\ UNCHANGED <<pc, ui_pc, lock, daemon_state, config, now, game_running, locals,
                   suspended, unresumed, tick, boot, batch>>

\* persistence.load()
StoreLoad ==
    /\ pc = "store"
    /\ ~call.done
    /\ call' = [call EXCEPT !.done = TRUE] @@ [loaded |-> load(file)]
    /\ UNCHANGED <<pc, ui_pc, lock, daemon_state, config, file, now, game_running, locals,
                   suspended, unresumed, tick, boot, batch>>

SpecStore == InitStore /\ [][StoreOpen \/ StoreSave \/ StoreLoad]_vars

\* ------------------------------------- save, load and delete in any order
\* Calls made on one FileStatePersistence before the run ends.
MaxStoreCalls == 4

NoStoreCall == [fn |-> "none"]

InitPersistence ==
    InitCall({[op |-> "persistence", done |-> FALSE, n |-> 0, deleted |-> FALSE,
               last |-> NoStoreCall]})

\* The path starts on any of StoreFiles.
PersistenceOpen ==
    /\ pc = "call"
    /\ call.op = "persistence"
    /\ pc' = "persistence"
    /\ file' \in StoreFiles
    /\ UNCHANGED <<ui_pc, lock, daemon_state, config, now, game_running, locals,
                   suspended, unresumed, tick, boot, batch, call>>

\* persistence.save(&state)
PersistenceSave ==
    /\ pc = "persistence"
    /\ call.n < MaxStoreCalls
    /\ \E st \in StoreStates, outcome \in SaveOutcomes :
        /\ file' = save(file, st, outcome)
        /\ call' = [call EXCEPT !.n = @ + 1, !.deleted = FALSE,
                                !.last = [fn |-> "save", ok |-> outcome = "ok"]]
    /\ UNCHANGED <<pc, ui_pc, lock, daemon_state, config, now, game_running, locals,
                   suspended, unresumed, tick, boot, batch>>

\* persistence.delete()
PersistenceDelete ==
    /\ pc = "persistence"
    /\ call.n < MaxStoreCalls
    /\ \E outcome \in DeleteOutcomes :
        /\ file' = delete(file, outcome)
        /\ call' = [call EXCEPT !.n = @ + 1,
                                !.deleted = delete_ok(file, outcome),
                                !.last = [fn |-> "delete", ok |-> delete_ok(file, outcome),
                                          existed |-> file.kind # "absent"]]
    /\ UNCHANGED <<pc, ui_pc, lock, daemon_state, config, now, game_running, locals,
                   suspended, unresumed, tick, boot, batch>>

\* persistence.load()
PersistenceLoad ==
    /\ pc = "persistence"
    /\ call.n < MaxStoreCalls
    /\ call' = [call EXCEPT !.n = @ + 1,
                            !.last = [fn |-> "load", result |-> load(file),
                                      existed |-> file.kind # "absent"]]
    /\ UNCHANGED <<pc, ui_pc, lock, daemon_state, config, file, now, game_running, locals,
                   suspended, unresumed, tick, boot, batch>>

SpecPersistence ==
    InitPersistence
    /\ [][PersistenceOpen \/ PersistenceSave \/ PersistenceDelete \/ PersistenceLoad]_vars

\* ------------------------------------ the standalone engine of main.rs
\* is_critical_process: the `critical` array.
critical_process_names ==
    {
     <<"S", "y", "s", "t", "e", "m">>,
     <<"s", "m", "s", "s", ".", "e", "x", "e">>,
     <<"c", "s", "r", "s", "s", ".", "e", "x", "e">>,
     <<"w", "i", "n", "i", "n", "i", "t", ".", "e", "x", "e">>,
     <<"s", "e", "r", "v", "i", "c", "e", "s", ".", "e", "x", "e">>,
     <<"l", "s", "a", "s", "s", ".", "e", "x", "e">>,
     <<"s", "v", "c", "h", "o", "s", "t", ".", "e", "x", "e">>,
     <<"w", "i", "n", "l", "o", "g", "o", "n", ".", "e", "x", "e">>,
     <<"e", "x", "p", "l", "o", "r", "e", "r", ".", "e", "x", "e">>,
     <<"d", "w", "m", ".", "e", "x", "e">>
    }

\* categorize_process: directories of game libraries.
gaming_path_patterns ==
    {
     <<"\\", "s", "t", "e", "a", "m", "\\">>,
     <<"\\", "s", "t", "e", "a", "m", "a", "p", "p", "s", "\\">>,
     <<"\\", "s", "t", "e", "a", "m", "l", "i", "b", "r", "a", "r", "y", "\\">>,
     <<"\\", "e", "p", "i", "c", " ", "g", "a", "m", "e", "s", "\\">>,
     <<"\\", "e", "p", "i", "c", "g", "a", "m", "e", "s", "\\">>,
     <<"\\", "o", "r", "i", "g", "i", "n", " ", "g", "a", "m", "e", "s", "\\">>,
     <<"\\", "g", "o", "g", " ", "g", "a", "l", "a", "x", "y", "\\">>,
     <<"\\", "g", "o", "g", " ", "g", "a", "m", "e", "s", "\\">>,
     <<"\\", "b", "a", "t", "t", "l", "e", ".", "n", "e", "t", "\\">>,
     <<"\\", "u", "b", "i", "s", "o", "f", "t", "\\">>,
     <<"\\", "e", "a", " ", "g", "a", "m", "e", "s", "\\">>,
     <<"\\", "r", "i", "o", "t", " ", "g", "a", "m", "e", "s", "\\">>,
     <<"\\", "p", "r", "o", "g", "r", "a", "m", " ", "f", "i", "l", "e", "s", "\\", "s", "t", "e", "a", "m", "\\">>,
     <<"\\", "p", "r", "o", "g", "r", "a", "m", " ", "f", "i", "l", "e", "s", " ", "(", "x", "8", "6", ")", "\\", "s", "t", "e", "a", "m", "\\">>,
     <<"\\", "g", "a", "m", "e", "s", "\\">>,
     <<"\\", "m", "y", " ", "g", "a", "m", "e", "s", "\\">>
    }

\* categorize_process: names of game launchers, looked for in the parent's name.
gaming_parent_patterns ==
    {
     <<"s", "t", "e", "a", "m", ".", "e", "x", "e">>,
     <<"e", "p", "i", "c", "g", "a", "m", "e", "s", "l", "a", "u", "n", "c", "h", "e", "r", ".", "e", "x", "e">>,
     <<"o", "r", "i", "g", "i", "n", ".", "e", "x", "e">>,
     <<"b", "a", "t", "t", "l", "e", ".", "n", "e", "t", ".", "e", "x", "e">>,
     <<"g", "o", "g", ".", "e", "x", "e">>,
     <<"g", "a", "l", "a", "x", "y", "c", "l", "i", "e", "n", "t", ".", "e", "x", "e">>
    }

\* categorize_process: launchers, anti-cheat services and games by name.
gaming_patterns ==
    {
     <<"s", "t", "e", "a", "m", ".", "e", "x", "e">>,
     <<"s", "t", "e", "a", "m", "w", "e", "b", "h", "e", "l", "p", "e", "r", ".", "e", "x", "e">>,
     <<"s", "t", "e", "a", "m", "s", "e", "r", "v", "i", "c", "e", ".", "e", "x", "e">>,
     <<"e", "p", "i", "c", "g", "a", "m", "e", "s", "l", "a", "u", "n", "c", "h", "e", "r", ".", "e", "x", "e">>,
     <<"e", "p", "i", "c", "w", "e", "b", "h", "e", "l", "p", "e", "r", ".", "e", "x", "e">>,
     <<"o", "r", "i", "g", "i", "n", ".", "e", "x", "e">>,
     <<"o", "r", "i", "g", "i", "n", "w", "e", "b", "h", "e", "l", "p", "e", "r", ".", "e", "x", "e">>,
     <<"g", "o", "g", ".", "e", "x", "e">>,
     <<"g", "a", "l", "a", "x", "y", "c", "l", "i", "e", "n", "t", ".", "e", "x", "e">>,
     <<"b", "a", "t", "t", "l", "e", ".", "n", "e", "t", ".", "e", "x", "e">>,
     <<"b", "l", "i", "z", "z", "a", "r", "d", ".", "e", "x", "e">>,
     <<"g", "a", "m", "e", ".", "e", "x", "e">>,
     <<"l", "a", "u", "n", "c", "h", "e", "r", ".", "e", "x", "e">>,
     <<"e", "a", "s", "y", "a", "n", "t", "i", "c", "h", "e", "a", "t", ".", "e", "x", "e">>,
     <<"b", "a", "t", "t", "l", "e", "y", "e", ".", "e", "x", "e">>,
     <<"v", "a", "n", "g", "u", "a", "r", "d", ".", "e", "x", "e">>,
     <<"c", "s", "g", "o", ".", "e", "x", "e">>,
     <<"d", "o", "t", "a", "2", ".", "e", "x", "e">>,
     <<"l", "e", "a", "g", "u", "e", "o", "f", "l", "e", "g", "e", "n", "d", "s", ".", "e", "x", "e">>,
     <<"v", "a", "l", "o", "r", "a", "n", "t", ".", "e", "x", "e">>,
     <<"o", "v", "e", "r", "w", "a", "t", "c", "h", ".", "e", "x", "e">>,
     <<"m", "i", "n", "e", "c", "r", "a", "f", "t", ".", "e", "x", "e">>
    }

\* categorize_process: chat and voice applications.
communication_patterns ==
    {
     <<"d", "i", "s", "c", "o", "r", "d", ".", "e", "x", "e">>,
     <<"d", "i", "s", "c", "o", "r", "d", "c", "a", "n", "a", "r", "y", ".", "e", "x", "e">>,
     <<"d", "i", "s", "c", "o", "r", "d", "p", "t", "b", ".", "e", "x", "e">>,
     <<"s", "l", "a", "c", "k", ".", "e", "x", "e">>,
     <<"t", "e", "a", "m", "s", ".", "e", "x", "e">>,
     <<"z", "o", "o", "m", ".", "e", "x", "e">>,
     <<"s", "k", "y", "p", "e", ".", "e", "x", "e">>,
     <<"t", "e", "l", "e", "g", "r", "a", "m", ".", "e", "x", "e">>,
     <<"s", "i", "g", "n", "a", "l", ".", "e", "x", "e">>,
     <<"e", "l", "e", "m", "e", "n", "t", ".", "e", "x", "e">>,
     <<"m", "a", "t", "r", "i", "x", ".", "e", "x", "e">>,
     <<"r", "i", "o", "t", ".", "e", "x", "e">>,
     <<"m", "u", "m", "b", "l", "e", ".", "e", "x", "e">>,
     <<"t", "e", "a", "m", "s", "p", "e", "a", "k", ".", "e", "x", "e">>,
     <<"v", "e", "n", "t", "r", "i", "l", "o", ".", "e", "x", "e">>,
     <<"w", "h", "a", "t", "s", "a", "p", "p", ".", "e", "x", "e">>,
     <<"m", "e", "s", "s", "e", "n", "g", "e", "r", ".", "e", "x", "e">>
    }

\* categorize_process: background services, updaters, helpers.
background_patterns ==
    {
     <<"u", "p", "l", "a", "y", ".", "e", "x", "e">>,
     <<"u", "p", "c", ".", "e", "x", "e">>,
     <<"u", "b", "i", "s", "o", "f", "t", "c", "o", "n", "n", "e", "c", "t", ".", "e", "x", "e">>,
     <<"e", "p", "i", "c", "o", "n", "l", "i", "n", "e", "s", "e", "r", "v", "i", "c", "e", "s", ".", "e", "x", "e">>,
     <<"n", "v", "c", "o", "n", "t", "a", "i", "n", "e", "r", ".", "e", "x", "e">>,
     <<"n", "v", "i", "d", "i", "a", " ", "s", "h", "a", "r", "e", ".", "e", "x", "e">>,
     <<"g", "e", "f", "o", "r", "c", "e", " ", "e", "x", "p", "e", "r", "i", "e", "n", "c", "e", ".", "e", "x", "e">>,
     <<"n", "v", "c", "p", "l", "u", "i", ".", "e", "x", "e">>,
     <<"n", "v", "p", "r", "o", "f", "i", "l", "e", "u", "p", "d", "a", "t", "e", "r", ".", "e", "x", "e">>,
     <<"a", "m", "d", "r", "s", "s", "e", "r", "v", ".", "e", "x", "e">>,
     <<"r", "a", "d", "e", "o", "n", "s", "o", "f", "t", ".", "e", "x", "e">>,
     <<"j", "e", "t", "b", "r", "a", "i", "n", "s", ".", "t", "o", "o", "l", "b", "o", "x", ".", "e", "x", "e">>,
     <<"j", "e", "t", "b", "r", "a", "i", "n", "s", "-", "t", "o", "o", "l", "b", "o", "x", ".", "e", "x", "e">>,
     <<"u", "p", "d", "a", "t", "e", ".", "e", "x", "e">>,
     <<"u", "p", "d", "a", "t", "e", "r", ".", "e", "x", "e">>,
     <<"h", "e", "l", "p", "e", "r", ".", "e", "x", "e">>,
     <<"c", "r", "a", "s", "h", "h", "a", "n", "d", "l", "e", "r", ".", "e", "x", "e">>,
     <<"c", "r", "a", "s", "h", "r", "e", "p", "o", "r", "t", "e", "r", ".", "e", "x", "e">>,
     <<"o", "n", "e", "d", "r", "i", "v", "e", ".", "e", "x", "e">>,
     <<"d", "r", "o", "p", "b", "o", "x", ".", "e", "x", "e">>,
     <<"g", "o", "o", "g", "l", "e", "d", "r", "i", "v", "e", "s", "y", "n", "c", ".", "e", "x", "e">>
    }

\* categorize_process: browsers, office, editors, media players.
productivity_patterns ==
    {
     <<"c", "h", "r", "o", "m", "e", ".", "e", "x", "e">>,
     <<"f", "i", "r", "e", "f", "o", "x", ".", "e", "x", "e">>,
     <<"m", "s", "e", "d", "g", "e", ".", "e", "x", "e">>,
     <<"e", "d", "g", "e", ".", "e", "x", "e">>,
     <<"o", "p", "e", "r", "a", ".", "e", "x", "e">>,
     <<"b", "r", "a", "v", "e", ".", "e", "x", "e">>,
     <<"v", "i", "v", "a", "l", "d", "i", ".", "e", "x", "e">>,
     <<"e", "x", "c", "e", "l", ".", "e", "x", "e">>,
     <<"w", "o", "r", "d", ".", "e", "x", "e">>,
     <<"p", "o", "w", "e", "r", "p", "o", "i", "n", "t", ".", "e", "x", "e">>,
     <<"o", "u", "t", "l", "o", "o", "k", ".", "e", "x", "e">>,
     <<"o", "n", "e", "n", "o", "t", "e", ".", "e", "x", "e">>,
     <<"n", "o", "t", "i", "o", "n", ".", "e", "x", "e">>,
     <<"o", "b", "s", "i", "d", "i", "a", "n", ".", "e", "x", "e">>,
     <<"c", "o", "d", "e", ".", "e", "x", "e">>,
     <<"c", "o", "d", "e", "-", "i", "n", "s", "i", "d", "e", "r", "s", ".", "e", "x", "e">>,
     <<"a", "t", "o", "m", ".", "e", "x", "e">>,
     <<"s", "u", "b", "l", "i", "m", "e", ".", "e", "x", "e">>,
     <<"n", "o", "t", "e", "p", "a", "d", "+", "+", ".", "e", "x", "e">>,
     <<"p", "y", "c", "h", "a", "r", "m", ".", "e", "x", "e">>,
     <<"i", "n", "t", "e", "l", "l", "i", "j", ".", "e", "x", "e">>,
     <<"r", "i", "d", "e", "r", ".", "e", "x", "e">>,
     <<"s", "p", "o", "t", "i", "f", "y", ".", "e", "x", "e">>,
     <<"v", "l", "c", ".", "e", "x", "e">>,
     <<"i", "t", "u", "n", "e", "s", ".", "e", "x", "e">>,
     <<"m", "u", "s", "i", "c", "b", "e", "e", ".", "e", "x", "e">>
    }

\* SmartFreezeEngine::is_critical_process.
is_critical_process(name) == \E c \in critical_process_names : eq_ignore_ascii_case(name, c)

\* A HashMap is a function on the keys inserted so far.
EmptyMap == [k \in {} |-> 0]

\* HashMap::insert.
insert(m, k, v) == [q \in DOMAIN m \cup {k} |-> IF q = k THEN v ELSE m[q]]

\* "Strategy 3" of categorize_process: the path lies in a game library and the
\* name is not that of a launcher, updater or crash handler.
GamingByPath(name_lower, path_lower) ==
    /\ ContainsAny(path_lower, gaming_path_patterns)
    /\ ~contains(name_lower, <<"l", "a", "u", "n", "c", "h", "e", "r">>)
    /\ ~contains(name_lower, <<"u", "p", "d", "a", "t", "e">>)
    /\ ~contains(name_lower, <<"c", "r", "a", "s", "h">>)

\* "Strategy 2" of categorize_process: parent_map has the pid, process_names
\* has the parent, and the parent's name holds a launcher name.
GamingByParent(pid, parent_map, process_names) ==
    /\ pid \in DOMAIN parent_map
    /\ parent_map[pid] \in DOMAIN process_names
    /\ ContainsAny(to_lowercase(process_names[parent_map[pid]]), gaming_parent_patterns)

\* SmartFreezeEngine::categorize_process, with the two maps of the engine as
\* they stand at the call.
categorize_process(pid, name, full_path, parent_map, process_names) ==
    LET name_lower == to_lowercase(name)
        path_lower == to_lowercase(full_path)
    IN  IF is_critical_process(name) THEN "Critical"
        ELSE IF GamingByPath(name_lower, path_lower) THEN "Gaming"
        ELSE IF GamingByParent(pid, parent_map, process_names) THEN "Gaming"
        ELSE IF ContainsAny(name_lower, gaming_patterns) THEN "Gaming"
        ELSE IF ContainsAny(name_lower, communication_patterns) THEN "Communication"
        ELSE IF ContainsAny(name_lower, background_patterns) THEN "BackgroundService"
        ELSE IF ContainsAny(name_lower, productivity_patterns) THEN "Productivity"
        ELSE "Unknown"

\* full_path.split('\\').last(): what follows the last backslash.
file_name(full_path) ==
    LET cuts == {i \in 1 .. Len(full_path) : full_path[i] = "\\"} IN
    IF cuts = {} THEN full_path
    ELSE SubSeq(full_path, (CHOOSE i \in cuts : \A j \in cuts : j <= i) + 1, Len(full_path))

\* get_process_name_and_path(..).unwrap_or_else(|| (format!("PID_{}", pid), String::new()))
name_and_path(pid, image) ==
    IF image.ok
    THEN [name |-> file_name(image.full_path), full_path |-> image.full_path]
    ELSE [name |-> <<"P", "I", "D", "_">> \o Digits(pid), full_path |-> <<>>]

\* SmartFreezeEngine::get_process_info for one snapshot entry: None for pid 0
\* and when OpenProcess fails.  Memory, CPU and the foreground flag play no part
\* in the category and are left out of the record.
get_process_info(entry, parent_map, process_names) ==
    IF entry.pid = 0 \/ ~entry.opens THEN [some |-> FALSE]
    ELSE LET np == name_and_path(entry.pid, entry.image) IN
         [some |-> TRUE, pid |-> entry.pid, name |-> np.name, full_path |-> np.full_path,
          category |-> categorize_process(entry.pid, np.name, np.full_path,
                                          parent_map, process_names)]

\* Entries of one process snapshot.
MaxSnapshot == 2

EnginePids == 1 .. MaxSnapshot

NoImage == [ok |-> FALSE]

\* Images a process can run from: two launchers, a game, a critical process,
\* and the game inside a library directory.
EnginePaths ==
    {
     <<"C", ":", "\\", "a", "\\", "s", "t", "e", "a", "m", ".", "e", "x", "e">>,
     <<"C", ":", "\\", "a", "\\", "O", "r", "i", "g", "i", "n", ".", "e", "x", "e">>,
     <<"C", ":", "\\", "a", "\\", "h", "l", "2", ".", "e", "x", "e">>,
     <<"C", ":", "\\", "a", "\\", "s", "v", "c", "h", "o", "s", "t", ".", "e", "x", "e">>,
     <<"D", ":", "\\", "G", "a", "m", "e", "s", "\\", "h", "l", "2", ".", "e", "x", "e">>
    }

EngineImages == {NoImage} \cup {[ok |-> TRUE, full_path |-> p] : p \in EnginePaths}

SnapshotEntries ==
    [pid : EnginePids, parent : 0 .. MaxSnapshot, opens : BOOLEAN, image : EngineImages]

\* What CreateToolhelp32Snapshot can list: each pid once, in any order, no
\* process its own parent.
Snapshots ==
    {s \in UNION {[1 .. n -> SnapshotEntries] : n \in 1 .. MaxSnapshot} :
        /\ \A i, j \in 1 .. Len(s) : s[i].pid = s[j].pid => i = j
        /\ \A i \in 1 .. Len(s) : s[i].parent # s[i].pid}

InitEngine ==
    InitCall({[op |-> "enumerate_processes", done |-> FALSE, stage |-> "start",
               snapshot |-> s, idx |-> 1, parent_map |-> EmptyMap,
               process_names |-> EmptyMap, processes |-> <<>>] : s \in Snapshots})

RECURSIVE ParentMapOf(_, _)
ParentMapOf(s, m) ==
    IF s = <<>> THEN m
    ELSE ParentMapOf(Tail(s), IF Head(s).pid # 0
                              THEN insert(m, Head(s).pid, Head(s).parent) ELSE m)

\* enumerate_processes: both maps are cleared, then the first pass over the
\* snapshot fills parent_map.
EngineFirstPass ==
    /\ pc = "call"
    /\ call.op = "enumerate_processes"
    /\ call.stage = "start"
    /\ call' = [call EXCEPT !.stage = "second_pass",
                            !.parent_map = ParentMapOf(call.snapshot, EmptyMap),
                            !.process_names = EmptyMap]
    /\ CallFrame

\* enumerate_processes: one round of the second pass: get_process_info(pid),
\* and only then process_names.insert(pid, name) and processes.push.
EngineSecondPass ==
    /\ pc = "call"
    /\ call.op = "enumerate_processes"
    /\ call.stage = "second_pass"
    /\ call.idx <= Len(call.snapshot)
    /\ LET entry == call.snapshot[call.idx]
           info == get_process_info(entry, call.parent_map, call.process_names)
       IN  call' = [call EXCEPT
                        !.idx = @ + 1,
                        !.process_names = IF info.some THEN insert(@, info.pid, info.name) ELSE @,
                        !.processes = IF info.some THEN Append(@, info) ELSE @]
    /\ CallFrame

\* enumerate_processes returns `processes`.
EngineReturn ==
    /\ pc = "call"
    /\ call.op = "enumerate_processes"
    /\ call.stage = "second_pass"
    /\ call.idx > Len(call.snapshot)
    /\ call' = [call EXCEPT !.stage = "returned", !.done = TRUE]
    /\ CallFrame

SpecEngine == InitEngine /\ [][EngineFirstPass \/ EngineSecondPass \/ EngineReturn]_vars

\* ------------------------------------------------- staleness on its own
\* What SystemTime::now() can return after the start: the start itself, a
\* second later, MAX_STATE_AGE_SECS later and a second more.
ClockValues ==
    {StartTime, StartTime + 1, StartTime + MAX_STATE_AGE_SECS,
     StartTime + MAX_STATE_AGE_SECS + 1}

\* How a call of is_stale can end: it returns its bool, or, when the u64
\* subtraction underflows, it panics (overflow checks on) or returns what the
\* wrapped difference gives (overflow checks off).
is_stale_outcomes(r, t) ==
    IF Underflows(r, t)
    THEN {[panicked |-> TRUE], [panicked |-> FALSE, stale |-> is_stale(r, t)]}
    ELSE {[panicked |-> FALSE, stale |-> is_stale(r, t)]}

\* A PersistentState loaded from a file of an earlier run.
InitStale ==
    InitCall({[op |-> "stale", done |-> FALSE, state |-> from_str(f.content)] :
                f \in {g \in BootFiles : g.kind = "state"}})

\* persistent_state.add(pid, ..): FrozenProcess::new stamps the record with now.
StaleAdd ==
    /\ pc = "call"
    /\ call.op = "stale"
    /\ ~call.done
    /\ Len(call.state) < MaxRecords
    /\ \E p \in Pids : call' = [call EXCEPT !.state = Append(@, FrozenProcess(p, now))]
    /\ CallFrame

\* Time passes.
StaleClock ==
    /\ pc = "call"
    /\ call.op = "stale"
    /\ ~call.done
    /\ \E t \in ClockValues : t > now /\ now' = t
    /\ UNCHANGED <<pc, ui_pc, lock, daemon_state, config, file, game_running, locals,
                   suspended, unresumed, tick, boot, batch, call>>

\* frozen.is_stale() on one record of the state.
StaleIsStale ==
    /\ pc = "call"
    /\ call.op = "stale"
    /\ ~call.done
    /\ \E i \in 1 .. Len(call.state) : \E o \in is_stale_outcomes(call.state[i], now) :
        call' = [call EXCEPT !.done = TRUE] @@
                [fn |-> "is_stale", record |-> call.state[i], at |-> now, result |-> o]
    /\ CallFrame

\* state.get_valid_processes(): it panics if one of its is_stale calls does.
StaleGetValid ==
    /\ pc = "call"
    /\ call.op = "stale"
    /\ ~call.done
    /\ \/ /\ \E i \in 1 .. Len(call.state) : Underflows(call.state[i], now)
          /\ call' = [call EXCEPT !.done = TRUE] @@
                     [fn |-> "get_valid_processes", at |-> now, result |-> [panicked |-> TRUE]]
       \/ call' = [call EXCEPT !.done = TRUE] @@
                  [fn |-> "get_valid_processes", at |-> now,
                   result |-> [panicked |-> FALSE,
                               valid |-> get_valid_processes(call.state, now)]]
    /\ CallFrame

SpecStale == InitStale /\ [][StaleAdd \/ StaleClock \/ StaleIsStale \/ StaleGetValid]_vars

\* ====================================================================
\* Properties
\* ====================================================================
Pid(x) == x.pid
SeqMap(f(_), q) == [i \in 1 .. Len(q) |-> f(q[i])]
OkPid(c) == c.ok
FreezePid(c) == c.process.pid
\* Pids of the tick's controller calls, in call order.
FreezeCallPids == SeqMap(FreezePid, tick.freezes)
FrozenOkPids == SeqMap(FreezePid, SelectSeq(tick.freezes, OkPid))
ResumeCallPids == SeqMap(Pid, tick.resumes)
\* Pids the persisted file holds records for.
FilePids(f) == IF f.kind = "state" THEN PidsOf(from_str(f.content)) ELSE {}
NoDuplicates(q) == \A i, j \in 1 .. Len(q) : q[i] = q[j] => i = j
TickEnd == pc = "tick_end"

\* C1: in every reachable state frozen_pids holds only pids for which the
\* daemon's freeze_process returned Ok and on which no resume has been called
\* since.
C1_FrozenSubset == frozen_pids \subseteq suspended

\* C1 witness: a batch in which one freeze failed and another succeeded.
C1_Witness ==
    /\ frozen_pids # {}
    /\ \E i \in 1 .. Len(tick.freezes) : ~tick.freezes[i].ok

\* C2: every process freeze_process is called on is, in the enumeration
\* find_safe_to_freeze took on that tick, neither foreground nor Critical nor
\* Gaming.
C2_NeverFreezeProtected ==
    \A i \in 1 .. Len(tick.freezes) :
        /\ ~Protected(tick.freezes[i].process)
        /\ tick.freezes[i].process.pid \notin tick.unsafe_seen
        /\ tick.freezes[i].process \in SeqRange(tick.selected)

\* C2 witness: the enumeration held a protected process and another process
\* that was frozen, with keep_communication both ways.
C2_Witness ==
    /\ tick.unsafe_seen # {}
    /\ tick.freezes # <<>>
    /\ tick.freezes[1].ok

\* The case of C3: an enabled tick that found a game while game_detected was false.
C3_Case ==
    /\ TickEnd
    /\ tick.was_enabled = "yes"
    /\ ~tick.pre_gd
    /\ tick.gaming = "game"

\* What C3 says of game_detected, the freeze calls and frozen_pids.
C3_Batch ==
    /\ game_detected
    /\ FreezeCallPids = SeqMap(Pid, tick.selected)
    /\ NoDuplicates(FreezeCallPids)
    /\ frozen_pids = SeqRange(FrozenOkPids)

\* C3 as stated: at the end of such a tick game_detected is true, freeze_process
\* was called once on each selected process, and frozen_pids and the persisted
\* state both hold exactly the pids whose freeze succeeded.
C3_Original == C3_Case => (C3_Batch /\ FilePids(file) = SeqRange(FrozenOkPids))

\* C3 amended: the persisted state is only as good as the save: when
\* find_safe_to_freeze succeeded, save is called once with one record per
\* successful freeze, in order, and the file holds exactly that state if the
\* save succeeds; when it failed, nothing is saved and the file is as before.
C3_Amended ==
    C3_Case =>
        /\ C3_Batch
        /\ tick.safe_res = "ok" =>
            /\ Len(tick.saves) = 1
            /\ SeqMap(Pid, tick.saves[1].state) = FrozenOkPids
            /\ tick.saves[1].outcome = "ok" => file = StateFile(tick.saves[1].state)
        /\ tick.safe_res = "err" => (tick.saves = <<>> /\ file = tick.pre_file)

\* C3 witness: a failed freeze followed by a successful one, saved.
C3_Witness ==
    /\ C3_Case
    /\ Len(tick.freezes) = 2
    /\ ~tick.freezes[1].ok
    /\ tick.freezes[2].ok
    /\ tick.saves[1].outcome = "ok"

\* The case of C4: an enabled tick that found no game while game_detected was true.
C4_Case ==
    /\ TickEnd
    /\ tick.was_enabled = "yes"
    /\ tick.pre_gd
    /\ tick.gaming # "game"

\* What C4 says of game_detected, the resume calls and frozen_pids.
C4_Batch ==
    /\ ~game_detected
    /\ SeqRange(ResumeCallPids) = tick.pre_frozen
    /\ NoDuplicates(ResumeCallPids)
    /\ frozen_pids = {}

\* C4 as stated: at the end of such a tick game_detected is false, resume_process
\* was called exactly once on every pid that was in frozen_pids, frozen_pids is
\* empty and the persisted state is readable and holds no record.
C4_Original == C4_Case => (C4_Batch /\ file.kind # "corrupt" /\ FilePids(file) = {})

\* C4 amended: save is called once with an empty state, and the persisted state
\* is empty if that save succeeds.
C4_Amended ==
    C4_Case =>
        /\ C4_Batch
        /\ Len(tick.saves) = 1
        /\ tick.saves[1].state = <<>>
        /\ tick.saves[1].outcome = "ok" => file = StateFile(<<>>)

\* C4 witness: two pids were frozen, the first resume failed, the second was
\* still made.
C4_Witness ==
    /\ C4_Case
    /\ Len(tick.resumes) = 2
    /\ ~tick.resumes[1].ok
    /\ tick.saves[1].outcome = "ok"

\* C5: if from some point on the daemon stays enabled and no gaming process is
\* running, then from some point on frozen_pids is empty and every process the
\* daemon froze has had its resume call.
C5_EventuallyResumed ==
    (<>[](enabled /\ ~game_running)) => <>[](frozen_pids = {} /\ suspended = {})

\* C5 witness: the game is gone, the daemon is enabled, and the tick has just
\* made the resume calls for the pids it had frozen.
C5_Witness ==
    /\ TickEnd
    /\ enabled
    /\ ~game_running
    /\ tick.pre_frozen # {}
    /\ Len(tick.resumes) = Cardinality(tick.pre_frozen)
    /\ suspended = {}

\* A record is stale when now - timestamp > MAX_STATE_AGE_SECS (in the integers).
Stale(r, t) == t - r.timestamp > MAX_STATE_AGE_SECS
NotStale(r) == ~Stale(r, now)
BootRecordsOf(f) == IF f.kind = "state" THEN from_str(f.content) ELSE <<>>

\* C6: once the startup code has left recover_from_crash (or died in it),
\* resume has been attempted exactly once for every persisted record that is
\* not stale, in order, and for no stale record.
C6_RecoveryResumesNonStale ==
    (pc \in {"spawn", "panicked"}) =>
        SeqMap(Pid, boot.calls) = SeqMap(Pid, SelectSeq(BootRecordsOf(boot.file), NotStale))

\* C7: after the recovery pass the persisted state file does not exist.
C7_FileGoneAfterRecovery == (pc = "spawn") => file.kind = "absent"

\* C8: a tick on which find_gaming_processes failed made no freeze and no resume
\* call and left game_detected, frozen_pids and the persisted state as they were.
C8_EnumFailureIsNoData ==
    (TickEnd /\ tick.gaming = "err") =>
        /\ tick.freezes = <<>>
        /\ tick.resumes = <<>>
        /\ game_detected = tick.pre_gd
        /\ frozen_pids = tick.pre_frozen
        /\ file = tick.pre_file

BatchDone == batch.op # "none" /\ batch.idx > Len(batch.input)
CallPid(c) == c.pid
PairPid(x) == x[1]

C10_DisabledTickDoesNothing ==
    (TickEnd /\ tick.was_enabled = "no") =>
        /\ tick.enum_count = 0
        /\ tick.freezes = <<>>
        /\ tick.resumes = <<>>
        /\ tick.saves = <<>>
        /\ game_detected = tick.pre_gd
        /\ frozen_pids = tick.pre_frozen
        /\ file = tick.pre_file

\* C10 witness: the daemon was disabled while a game was detected and processes
\* were frozen.
C10_Witness ==
    /\ TickEnd
    /\ tick.was_enabled = "no"
    /\ game_detected
    /\ frozen_pids # {}

\* C11: a step that changes enabled sets it to its negation (so a second toggle
\* restores it) and records no controller, enumerator or persistence call; and
\* every step that starts or ends with the daemon disabled, the toggle included,
\* leaves game_detected, frozen_pids, the persisted state and the set of
\* processes the daemon holds suspended as they were.
C11_ToggleFrame ==
    [][/\ (enabled' # enabled) =>
            /\ enabled' = toggle_enabled(enabled)
            /\ toggle_enabled(enabled') = enabled
            /\ tick' = tick
       /\ (~enabled \/ ~enabled') =>
            UNCHANGED <<game_detected, frozen_pids, file, suspended>>]_vars

\* C11 witness: the daemon has been switched off and a poll tick has since run
\* with processes still frozen and the game still detected.
C11_Witness ==
    /\ ~enabled
    /\ pc = "sleep"
    /\ ui_pc = "idle"
    /\ game_detected
    /\ frozen_pids # {}
    /\ frozen_pids \subseteq suspended
    /\ FilePids(file) = frozen_pids

\* What a tick without a transition leaves behind: no controller call, no
\* persistence write, game_detected, frozen_pids and the file as they were.
TickDidNothing ==
    /\ tick.freezes = <<>>
    /\ tick.resumes = <<>>
    /\ tick.saves = <<>>
    /\ game_detected = tick.pre_gd
    /\ frozen_pids = tick.pre_frozen
    /\ file = tick.pre_file

\* C12: an enabled tick on which a game was running with game_detected already
\* true, or no game was running with game_detected false, made no freeze or
\* resume call, wrote nothing to persistence and left game_detected and
\* frozen_pids as they were.
C12_UnchangedConditionNoOp ==
    (/\ TickEnd
     /\ tick.was_enabled = "yes"
     /\ (tick.world_game = "yes") = tick.pre_gd) => TickDidNothing

\* The same, for the ticks on which find_gaming_processes returned a list: it
\* found a game with game_detected true, or none with game_detected false.
C12_WhenEnumerationSucceeds ==
    (/\ TickEnd
     /\ tick.was_enabled = "yes"
     /\ tick.gaming \in {"game", "nogame"}
     /\ (tick.gaming = "game") = tick.pre_gd) => TickDidNothing

\* A tick whose persistence.save returned Err.
C13_Case ==
    /\ TickEnd
    /\ tick.saves # <<>>
    /\ tick.saves[Len(tick.saves)].outcome # "ok"

\* C13: when the save after a batch fails, the batch stands: after a freeze
\* batch game_detected is true, frozen_pids holds every pid frozen with Ok, those
\* processes are still suspended and no resume call was made; after a resume
\* batch game_detected is false, frozen_pids is empty, every drained pid had its
\* one resume call and no freeze call was made; the save is not retried, and the
\* poll thread can release the lock and go on to its next tick.
C13_SaveFailureKeepsBatch ==
    C13_Case =>
        /\ Len(tick.saves) = 1
        /\ (tick.gaming = "game") =>
            /\ game_detected
            /\ frozen_pids = SeqRange(FrozenOkPids)
            /\ frozen_pids \subseteq suspended
            /\ tick.resumes = <<>>
        /\ (tick.gaming # "game") =>
            /\ ~game_detected
            /\ frozen_pids = {}
            /\ SeqRange(ResumeCallPids) = tick.pre_frozen
            /\ NoDuplicates(ResumeCallPids)
            /\ tick.freezes = <<>>
        /\ ENABLED PollUnlock

\* C13 witness: two processes were frozen and the save then failed half-way,
\* leaving an unreadable file.
C13_Witness ==
    /\ C13_Case
    /\ tick.gaming = "game"
    /\ Cardinality(frozen_pids) = 2
    /\ file = CorruptFile

\* C13, resume side: two pids were resumed and the save of the empty state
\* failed, leaving the old records on disk.
C13_WitnessResume ==
    /\ C13_Case
    /\ tick.gaming = "nogame"
    /\ Len(tick.resumes) = 2
    /\ Cardinality(FilePids(file)) = 2

InTick == pc \in {"check", "find_safe", "freeze", "resume", "tick_end"}

\* C14: the poll thread owns the mutex exactly from its lock() to the end of the
\* tick, batch and save included, and the tray handler owns it while it toggles,
\* never both; so the value of enabled the tick read is the value of enabled for
\* as long as the tick runs, and a toggle requested meanwhile has not been
\* applied.
C14_ToggleNeverMidBatch ==
    /\ InTick <=> (lock = "poll")
    /\ (ui_pc = "locked") <=> (lock = "ui")
    /\ tick.active <=> InTick
    /\ (tick.was_enabled = "yes") => enabled
    /\ (tick.was_enabled = "no") => ~enabled
    /\ (tick.freezes # <<>> \/ tick.resumes # <<>> \/ tick.saves # <<>>) => enabled

\* C14 witness: a toggle was requested while a freeze batch was running; the
\* batch and its save are done and the daemon is still enabled.
C14_Witness ==
    /\ TickEnd
    /\ ui_pc = "toggle"
    /\ tick.freezes # <<>>
    /\ tick.saves # <<>>
    /\ enabled

CallDone(op) == call.op = op /\ call.done

\* C15: is_safe_to_freeze(record, keep_communication) is true exactly when the
\* record is not foreground, its category is neither Critical nor Gaming, and
\* not (keep_communication and category Communication); BackgroundService,
\* Productivity and Unknown background records are safe under both settings.
C15_IsSafeToFreezeIff ==
    CallDone("is_safe_to_freeze") =>
        /\ call.result <=>
                /\ call.p.is_foreground = FALSE
                /\ call.p.category \notin {"Critical", "Gaming"}
                /\ ~(call.keep_communication = TRUE /\ call.p.category = "Communication")
        /\ (/\ ~call.p.is_foreground
            /\ call.p.category \in {"BackgroundService", "Productivity", "Unknown"})
                => call.result

\* C15 witness: a background Communication record refused because
\* keep_communication is set.
C15_Witness ==
    /\ CallDone("is_safe_to_freeze")
    /\ call.keep_communication
    /\ call.p.category = "Communication"
    /\ ~call.p.is_foreground
    /\ ~call.result

\* The records of q, in order, that C16 says find_safe_to_freeze returns.
C16_Expected(q, cfg) ==
    SelectSeq(q, LAMBDA p :
        /\ ~(p.memory_mb < cfg.min_memory_mb)
        /\ ~p.is_foreground
        /\ p.category \notin {"Critical", "Gaming"}
        /\ ~(cfg.keep_communication /\ p.category = "Communication"))

\* C16: find_safe_to_freeze returns the enumeration error when the enumeration
\* fails, and otherwise, in enumeration order, exactly the records whose memory
\* is at least min_memory_mb and for which is_safe_to_freeze holds.
C16_FindSafeToFreeze ==
    CallDone("find_safe_to_freeze") =>
        IF call.res.ok
        THEN /\ call.result.ok
             /\ call.result.list = C16_Expected(call.res.procs, call.cfg)
        ELSE call.result = [ok |-> FALSE]

\* C16 witness: of two safe records the one below the threshold is dropped and
\* the one exactly on it is returned.
C16_Witness ==
    /\ CallDone("find_safe_to_freeze")
    /\ call.res.ok
    /\ Len(call.res.procs) = 2
    /\ call.res.procs[1].memory_mb < call.cfg.min_memory_mb
    /\ ~Protected(call.res.procs[1])
    /\ call.res.procs[2].memory_mb = call.cfg.min_memory_mb
    /\ call.result.list = <<call.res.procs[2]>>

\* The order in which C17 says the categories are tried.
C17_Precedence ==
    <<"Critical", "Gaming", "Communication", "BackgroundService", "Productivity", "Unknown">>

\* Whether (name, path) is on the list of a category; Unknown has no list.
C17_OnList(cat, name, path) ==
    CASE cat = "Critical" -> is_critical(name)
      [] cat = "Gaming" -> is_gaming_by_path(path) \/ is_gaming_by_name(name)
      [] cat = "Communication" -> is_communication(name)
      [] cat = "BackgroundService" -> is_background_service(name)
      [] cat = "Productivity" -> is_productivity(name)
      [] OTHER -> FALSE

Steam == <<"s", "t", "e", "a", "m", ".", "e", "x", "e">>

\* C17: categorize returns one category: the first one in the precedence order
\* whose list the process is on, whatever later lists it is on as well, and
\* Unknown when it is on no list; steam.exe is Gaming at any path.
C17_FirstMatchPrecedence ==
    CallDone("categorize") =>
        /\ \E i \in 1 .. Len(C17_Precedence) :
            /\ call.result = C17_Precedence[i]
            /\ i < Len(C17_Precedence) => C17_OnList(C17_Precedence[i], call.name, call.path)
            /\ \A j \in 1 .. (i - 1) : ~C17_OnList(C17_Precedence[j], call.name, call.path)
        /\ call.name = Steam => call.result = "Gaming"

\* C17 witness: steamwebhelper.exe is on the gaming list (steam) and on the
\* background-service list (helper), and is categorized Gaming.
C17_Witness ==
    /\ CallDone("categorize")
    /\ is_gaming_by_name(call.name)
    /\ ~is_gaming_by_path(call.path)
    /\ is_background_service(call.name)
    /\ call.result = "Gaming"

DiscordExe == <<"d", "i", "s", "c", "o", "r", "d", ".", "e", "x", "e">>

\* C18: categorize(pid, "discord.exe", path) is Communication for every pid
\* and every path.
C18_DiscordIsCommunication ==
    (CallDone("categorize") /\ call.name = DiscordExe) => call.result = "Communication"

\* Equality of two names up to letter case, by comparing upper-cased letters.
UpperChar(c) ==
    IF \E i \in 1 .. Len(LowerCase) : LowerCase[i] = c
    THEN UpperCase[CHOOSE i \in 1 .. Len(LowerCase) : LowerCase[i] = c]
    ELSE c
SameIgnoringCase(a, b) ==
    /\ Len(a) = Len(b)
    /\ \A i \in 1 .. Len(a) : UpperChar(a[i]) = UpperChar(b[i])

\* C19: is_critical(name) is true exactly when name equals an entry of the
\* critical list up to letter case, so not for a name that merely contains an
\* entry; and a name for which it is true is categorized Critical at any path.
C19_CriticalExactMatch ==
    /\ CallDone("is_critical") =>
        (call.result <=> \E c \in critical : SameIgnoringCase(call.name, c))
    /\ (CallDone("categorize") /\ \E c \in critical : SameIgnoringCase(call.name, c)) =>
        call.result = "Critical"

\* C19 witness: EXPLORER.EXE started from a games directory is Critical.
C19_Witness ==
    /\ CallDone("categorize")
    /\ call.name # to_lowercase(call.name)
    /\ is_critical(call.name)
    /\ is_gaming_by_path(call.path)
    /\ call.result = "Critical"

\* C19, the other half: a name that contains a critical name without being one
\* is not critical.
C19_WitnessSubstring ==
    /\ CallDone("is_critical")
    /\ ContainsAny(to_lowercase(call.name), critical)
    /\ ~call.result

StoreLoaded == pc = "store" /\ call.done

NoTornWrite ==
    \A i \in 1 .. Len(call.saves) :
        call.saves[i] = "err_write" => \E j \in (i + 1) .. Len(call.saves) : call.saves[j] = "ok"

StaleDone(fn) == call.op = "stale" /\ call.done /\ call.fn = fn

\* now - timestamp > 3600 s, in the integers.
C21_IsStale(r, t) == t - r.timestamp > 3600

\* C21: is_stale returns true exactly when now - timestamp > 3600 at the time
\* of the call (3600 exactly is not stale), whenever the record was written;
\* get_valid_processes returns exactly the records that are not stale at the
\* time of the call, in stored order, so none with timestamp 0.
C21_StaleExactly ==
    /\ StaleDone("is_stale") =>
        /\ ~call.result.panicked
        /\ call.result.stale <=> C21_IsStale(call.record, call.at)
    /\ StaleDone("get_valid_processes") =>
        /\ ~call.result.panicked
        /\ call.result.valid = SelectSeq(call.state, LAMBDA r : ~C21_IsStale(r, call.at))
        /\ \A i \in 1 .. Len(call.result.valid) : call.result.valid[i].timestamp # 0

\* The same for states none of whose records carries a timestamp later than
\* the time of the call.
C21_WhenNoneFromFuture ==
    (call.op = "stale" /\ call.done
     /\ \A i \in 1 .. Len(call.state) : call.state[i].timestamp <= call.at) => C21_StaleExactly

\* Reached: a record written fresh, read MAX_STATE_AGE_SECS + 1 seconds later
\* and dropped, next to one exactly MAX_STATE_AGE_SECS old that is kept.
C21_Reached ==
    /\ StaleDone("get_valid_processes")
    /\ Len(call.state) = 2
    /\ call.at - call.state[1].timestamp = MAX_STATE_AGE_SECS + 1
    /\ call.state[1].timestamp >= StartTime
    /\ call.at - call.state[2].timestamp = MAX_STATE_AGE_SECS
    /\ call.result.valid = <<call.state[2]>>

\* C30: is_stale returns for every timestamp, and a record whose timestamp is
\* later than now is reported not stale.
C30_IsStaleTotal ==
    StaleDone("is_stale") =>
        /\ ~call.result.panicked
        /\ call.record.timestamp > call.at => ~call.result.stale

\* ---- C22
\* C22: the poll thread holds the mutex exactly from lock() to the end of the
\* loop body, a skipped tick included, and never while it sleeps; some thread
\* can always move; the poll thread never keeps the mutex for ever, and a
\* toggle waiting in lock() gets the mutex.
C22_NoDeadlock == Started => (ENABLED Poll \/ ENABLED UiLock \/ ENABLED UiToggle)

C22_WitnessSkipped ==
    /\ ui_pc = "toggle"
    /\ lock = "poll"
    /\ TickEnd
    /\ tick.was_enabled = "no"

\* ---- C23
\* C23: when find_safe_to_freeze fails on the tick that detects the game,
\* that tick freezes nothing, and a later tick starts the freeze batch again
\* unless the game has exited, the daemon was switched off, or a later
\* find_gaming_processes failed.
C23_FailedFindSafe == tick.active /\ tick.safe_res = "err"

C23_FailedEnumerationRetried ==
    /\ [](C23_FailedFindSafe => (tick.freezes = <<>> /\ frozen_pids = tick.pre_frozen))
    /\ C23_FailedFindSafe ~>
          (pc = "find_safe" \/ ~game_running \/ ~enabled \/ tick.gaming = "err")

\* The part of C23 the code does keep: nothing is frozen on the failed tick.
C23_NothingFrozenOnFailure ==
    C23_FailedFindSafe => (tick.freezes = <<>> /\ frozen_pids = tick.pre_frozen /\ file = tick.pre_file)

\* ---- C24
PersistenceCalled(fn) == pc = "persistence" /\ call.last.fn = fn

LoadedNone == [ok |-> TRUE, some |-> FALSE]

\* C24: load without a file returns Ok(None); delete without a file returns
\* Ok; after a delete that returned Ok the file is gone and every load returns
\* Ok(None) until save is called again.
C24_LoadAndDeleteWithoutFile ==
    /\ (PersistenceCalled("load") /\ ~call.last.existed) => call.last.result = LoadedNone
    /\ (PersistenceCalled("delete") /\ ~call.last.existed) => call.last.ok
    /\ (pc = "persistence" /\ call.deleted) => file = NoFile
    /\ (PersistenceCalled("load") /\ call.deleted) => call.last.result = LoadedNone

\* A file was there, delete removed it, and a load came after.
C24_Witness ==
    /\ PersistenceCalled("load")
    /\ call.deleted
    /\ call.n = MaxStoreCalls

\* delete is called a second time, on no file.
C24_WitnessDeleteTwice ==
    /\ PersistenceCalled("delete")
    /\ ~call.last.existed
    /\ call.deleted
    /\ call.n >= 2

\* ---- C25
EngineDone == call.op = "enumerate_processes" /\ call.done

\* The processes of the result whose direct parent, by the snapshot, is a
\* process of the result named like a launcher.
IsLauncherName(name) == ContainsAny(to_lowercase(name), gaming_parent_patterns)

ChildOfLauncher(c, processes, snapshot) ==
    \E i \in 1 .. Len(snapshot), j \in 1 .. Len(processes) :
        /\ snapshot[i].pid = c.pid
        /\ processes[j].pid = snapshot[i].parent
        /\ IsLauncherName(processes[j].name)

\* C25: enumerate_processes gives the category Gaming to every non-critical
\* process whose direct parent is a known launcher, in whatever order the
\* snapshot lists parent and child.
C25_ChildOfLauncherIsGaming ==
    EngineDone =>
        \A k \in 1 .. Len(call.processes) :
            LET c == call.processes[k] IN
            (ChildOfLauncher(c, call.processes, call.snapshot) /\ ~is_critical_process(c.name))
                => c.category = "Gaming"

\* Position of a pid in the snapshot.
SnapshotIndex(snapshot, pid) == CHOOSE i \in 1 .. Len(snapshot) : snapshot[i].pid = pid

\* The part of C25 the code keeps: the same, when the snapshot lists the
\* parent before the child.
C25_WhenParentListedFirst ==
    EngineDone =>
        \A k \in 1 .. Len(call.processes) :
            LET c == call.processes[k]
                i == SnapshotIndex(call.snapshot, c.pid)
            IN  (/\ ChildOfLauncher(c, call.processes, call.snapshot)
                 /\ ~is_critical_process(c.name)
                 /\ SnapshotIndex(call.snapshot, call.snapshot[i].parent) < i)
                    => c.category = "Gaming"

\* A child that only its parent makes Gaming, listed after the parent.
C25_Reached ==
    /\ EngineDone
    /\ \E k \in 1 .. Len(call.processes) :
        LET c == call.processes[k] IN
        /\ ChildOfLauncher(c, call.processes, call.snapshot)
        /\ c.category = "Gaming"
        /\ categorize_process(c.pid, c.name, c.full_path, EmptyMap, EmptyMap) = "Unknown"

\* ---- C26
\* The poll thread is between two ticks, or at the end of one.
TickBoundary == lock # "poll" \/ TickEnd

\* C26: at every tick boundary, game_detected = false implies that frozen_pids
\* is empty; a freeze batch starts from an empty frozen_pids.
C26_FrozenOnlyWhileGameDetected ==
    /\ (TickBoundary /\ ~game_detected) => frozen_pids = {}
    /\ (pc = "freeze" /\ tick.freezes = <<>>) => (frozen_pids = {} /\ tick.pre_frozen = {})

\* The end of a tick that resumed a batch frozen by an earlier tick.
C26_Witness ==
    /\ TickEnd
    /\ tick.resumes # <<>>
    /\ tick.pre_frozen # {}
    /\ ~game_detected
    /\ frozen_pids = {}

\* A toggle holds the mutex between two ticks while pids are frozen.
C26_WitnessFrozen ==
    /\ pc = "sleep"
    /\ lock = "ui"
    /\ game_detected
    /\ frozen_pids # {}

\* ---- C27
\* The step is a call of engine.freeze_process by the poll thread.
FreezeCall == pc = "freeze" /\ safe # <<>> /\ Len(tick'.freezes) = Len(tick.freezes) + 1

\* C27: freeze_process is never called on a pid the daemon froze earlier and
\* has not successfully resumed since.
C27_NeverFreezeSuspended == [][FreezeCall => Head(safe).pid \notin unresumed]_vars

\* The part of C27 the code keeps: between two freeze calls on a pid there is
\* a resume call on it, successful or not.
C27_ResumeCallBetweenFreezes == [][FreezeCall => Head(safe).pid \notin suspended]_vars

\* ---- C28
\* C28: in every state the daemon can be killed in, each pid it froze with
\* success and has made no resume call on since has a record in the persisted
\* file.
C28_FrozenAlwaysPersisted == Started => suspended \subseteq FilePids(file)

\* ---- C29
\* C29: once Quit has completed, every pid the daemon froze and has not
\* resumed has a record in the persisted file.
C29_QuitLeavesRecords == (ui_pc = "exited") => unresumed \subseteq FilePids(file)

\* The other half of C29: the save of the Quit handler takes no record of a
\* pid that is still suspended out of the file.
C29_QuitSaveKeepsRecords ==
    [][(ui_pc = "quit_save" /\ ui_pc' = "quit_exit")
          => (unresumed \cap FilePids(file)) \subseteq FilePids(file')]_vars

====
